---- MODULE Spec2Model ----
(***************************************************************************)
(* A model of the chess rules engine of cikavelja/chess-game: the move     *)
(* generator and check detector of utils/move-validation.ts, the board     *)
(* set-up of utils/chess-utils.ts and the game state machine of            *)
(* components/ChessBoard.tsx (handleSquareClick, makeMove, the promotion   *)
(* dialog, undoLastMove, resetBoard and the imperative handle).            *)
(*                                                                         *)
(* Conventions.                                                            *)
(*  - A ChessPosition is the record [row, col]; a board is board[row][col].*)
(*  - JavaScript's null / undefined is the record Null; reading a field of *)
(*    Null is an evaluation error, as it is a TypeError in the source.     *)
(*  - hasMoved and justMovedTwo are optional in ChessPiece and are only    *)
(*    ever tested for truthiness, so `undefined` is modelled as FALSE.     *)
(*  - The generators return arrays that the callers only test with         *)
(*    .some(...) and .length > 0, so they are modelled as sets.            *)
(***************************************************************************)
EXTENDS Integers, Sequences, FiniteSets, TLC

Null == [null |-> TRUE]

\* An absent promotion?: PieceType argument or field.
NoPromotion == "none"

Rows == 0 .. 7

Cols == 0 .. 7

Pos(r, c) == [row |-> r, col |-> c]

Squares == {Pos(r, c) : r \in Rows, c \in Cols}

Piece(t, c) == [type |-> t, color |-> c, hasMoved |-> FALSE, justMovedTwo |-> FALSE]

PromotionTypes == {"queen", "rook", "bishop", "knight"}

Opponent(color) == IF color = "white" THEN "black" ELSE "white"

(***************************************************************************)
(* utils/chess-utils.ts                                                    *)
(***************************************************************************)
BackRank == <<"rook", "knight", "bishop", "queen", "king", "bishop", "knight", "rook">>

initializeBoard ==
  [r \in Rows |-> [c \in Cols |->
     CASE r = 0 -> Piece(BackRank[c + 1], "black")
       [] r = 1 -> Piece("pawn", "black")
       [] r = 6 -> Piece("pawn", "white")
       [] r = 7 -> Piece(BackRank[c + 1], "white")
       [] OTHER -> Null]]

isValidPosition(pos) == pos.row >= 0 /\ pos.row < 8 /\ pos.col >= 0 /\ pos.col < 8

(***************************************************************************)
(* utils/move-validation.ts: the per-piece generators                      *)
(***************************************************************************)
\* The squares a pawn may capture on: the two forward diagonals that are on the
\* board, each taken when it holds an enemy piece, or when the square beside the
\* pawn on that file holds an enemy pawn with justMovedTwo (en passant).
PawnCaptureOk(board, position, piece, pos) ==
  /\ isValidPosition(pos)
  /\ \/ LET targetPiece == board[pos.row][pos.col]
        IN  targetPiece # Null /\ targetPiece.color # piece.color
     \/ LET adjacentPiece == board[position.row][pos.col]
        IN  /\ adjacentPiece # Null
            /\ adjacentPiece.type = "pawn"
            /\ adjacentPiece.color # piece.color
            /\ adjacentPiece.justMovedTwo

getPawnMoves(board, position) ==
  LET piece == board[position.row][position.col]
      direction == IF piece.color = "white" THEN -1 ELSE 1
      startRow == IF piece.color = "white" THEN 6 ELSE 1
      oneForward == Pos(position.row + direction, position.col)
      twoForward == Pos(position.row + 2 * direction, position.col)
      forward ==
        IF isValidPosition(oneForward) /\ board[oneForward.row][oneForward.col] = Null
        THEN {oneForward} \cup
             (IF position.row = startRow /\ board[twoForward.row][twoForward.col] = Null
              THEN {twoForward} ELSE {})
        ELSE {}
      capturePositions == {Pos(position.row + direction, position.col - 1),
                           Pos(position.row + direction, position.col + 1)}
  IN  forward \cup {pos \in capturePositions : PawnCaptureOk(board, position, piece, pos)}

knightOffsets ==
  {<<-2, -1>>, <<-2, 1>>, <<-1, -2>>, <<-1, 2>>, <<1, -2>>, <<1, 2>>, <<2, -1>>, <<2, 1>>}

kingDirections ==
  {<<-1, -1>>, <<-1, 0>>, <<-1, 1>>, <<0, -1>>, <<0, 1>>, <<1, -1>>, <<1, 0>>, <<1, 1>>}

straightDirections == {<<-1, 0>>, <<1, 0>>, <<0, -1>>, <<0, 1>>}

diagonalDirections == {<<-1, -1>>, <<-1, 1>>, <<1, -1>>, <<1, 1>>}

\* One step by each offset: on the board, and empty or holding an enemy piece.
StepMoves(board, position, offsets) ==
  LET piece == board[position.row][position.col]
      targets == {Pos(position.row + o[1], position.col + o[2]) : o \in offsets}
  IN  {t \in targets :
         /\ isValidPosition(t)
         /\ LET targetPiece == board[t.row][t.col]
            IN  targetPiece = Null \/ targetPiece.color # piece.color}

getKnightMoves(board, position) == StepMoves(board, position, knightOffsets)

getBasicKingMoves(board, position) == StepMoves(board, position, kingDirections)

\* Ray going on behind an enemy piece it could capture.
RECURSIVE RayPastEnemy(_, _, _, _, _, _)
RayPastEnemy(board, color, currentRow, currentCol, dRow, dCol) ==
  IF ~isValidPosition(Pos(currentRow, currentCol)) THEN {}
  ELSE LET currentPiece == board[currentRow][currentCol]
       IN  IF currentPiece = Null \/ currentPiece.color # color
           THEN {Pos(currentRow, currentCol)} \cup
                RayPastEnemy(board, color, currentRow + dRow, currentCol + dCol, dRow, dCol)
           ELSE {}

\* The while loop of getStraightMoves / getDiagonalMoves along one direction.
RECURSIVE Ray(_, _, _, _, _, _)
Ray(board, color, currentRow, currentCol, dRow, dCol) ==
  IF ~isValidPosition(Pos(currentRow, currentCol)) THEN {}
  ELSE LET currentPiece == board[currentRow][currentCol]
       IN  IF currentPiece = Null
           THEN {Pos(currentRow, currentCol)} \cup
                Ray(board, color, currentRow + dRow, currentCol + dCol, dRow, dCol)
           ELSE IF currentPiece.color # color THEN {Pos(currentRow, currentCol)} ELSE {}

RayMoves(board, position, directions) ==
  LET piece == board[position.row][position.col]
  IN  UNION {Ray(board, piece.color, position.row + d[1], position.col + d[2], d[1], d[2]) :
             d \in directions}

getStraightMoves(board, position) == RayMoves(board, position, straightDirections)

getDiagonalMoves(board, position) == RayMoves(board, position, diagonalDirections)

getRookMoves(board, position) == getStraightMoves(board, position)

getBishopMoves(board, position) == getDiagonalMoves(board, position)

getQueenMoves(board, position) ==
  getStraightMoves(board, position) \cup getDiagonalMoves(board, position)

\* getValidMovesWithoutRecursion sending the queen to the rook's generator only.
getValidMovesWithoutRecursionQueenAsRook(board, position) ==
  LET piece == board[position.row][position.col]
  IN  IF piece = Null THEN {}
      ELSE CASE piece.type = "pawn" -> getPawnMoves(board, position)
             [] piece.type = "rook" -> getRookMoves(board, position)
             [] piece.type = "knight" -> getKnightMoves(board, position)
             [] piece.type = "bishop" -> getBishopMoves(board, position)
             [] piece.type = "queen" -> getRookMoves(board, position)
             [] piece.type = "king" -> getBasicKingMoves(board, position)
             [] OTHER -> {}

getValidMovesWithoutRecursion(board, position) ==
  LET piece == board[position.row][position.col]
  IN  IF piece = Null THEN {}
      ELSE CASE piece.type = "pawn" -> getPawnMoves(board, position)
             [] piece.type = "rook" -> getRookMoves(board, position)
             [] piece.type = "knight" -> getKnightMoves(board, position)
             [] piece.type = "bishop" -> getBishopMoves(board, position)
             [] piece.type = "queen" -> getQueenMoves(board, position)
             [] piece.type = "king" -> getBasicKingMoves(board, position)
             [] OTHER -> {}

isPositionUnderAttack(board, position, color) ==
  \E sq \in Squares :
    LET piece == board[sq.row][sq.col]
    IN  /\ piece # Null
        /\ piece.color # color
        /\ position \in getValidMovesWithoutRecursion(board, sq)

\* canCastle without the loop over the squares between king and rook.
canCastleIgnoresBetween(board, color, side) ==
  LET row == IF color = "white" THEN 7 ELSE 0
      king == board[row][4]
      rook == board[row][IF side = "kingside" THEN 7 ELSE 0]
      kingPath == IF side = "kingside" THEN 4 .. 6 ELSE 2 .. 4
  IN  /\ king # Null /\ king.type = "king" /\ king.color = color /\ ~king.hasMoved
      /\ rook # Null /\ rook.type = "rook" /\ rook.color = color /\ ~rook.hasMoved
      /\ \A col \in kingPath : ~isPositionUnderAttack(board, Pos(row, col), color)

canCastle(board, color, side) ==
  LET row == IF color = "white" THEN 7 ELSE 0
      kingCol == 4
      king == board[row][kingCol]
      rookCol == IF side = "kingside" THEN 7 ELSE 0
      rook == board[row][rookCol]
      between == IF side = "kingside" THEN (kingCol + 1) .. (rookCol - 1)
                 ELSE (rookCol + 1) .. (kingCol - 1)
      kingPath == IF side = "kingside" THEN kingCol .. (kingCol + 2)
                  ELSE (kingCol - 2) .. kingCol
  IN  /\ king # Null /\ king.type = "king" /\ king.color = color /\ ~king.hasMoved
      /\ rook # Null /\ rook.type = "rook" /\ rook.color = color /\ ~rook.hasMoved
      /\ \A col \in between : board[row][col] = Null
      /\ \A col \in kingPath : ~isPositionUnderAttack(board, Pos(row, col), color)

getKingMoves(board, position) ==
  LET piece == board[position.row][position.col]
      row == IF piece.color = "white" THEN 7 ELSE 0
  IN  getBasicKingMoves(board, position) \cup
      (IF ~piece.hasMoved
       THEN (IF canCastle(board, piece.color, "kingside")
             THEN {Pos(row, position.col + 2)} ELSE {}) \cup
            (IF canCastle(board, piece.color, "queenside")
             THEN {Pos(row, position.col - 2)} ELSE {})
       ELSE {})

\* getValidMoves(board, position, false): the generator without the legality filter.
PseudoLegalMoves(board, position) ==
  LET piece == board[position.row][position.col]
  IN  IF piece = Null THEN {}
      ELSE CASE piece.type = "pawn" -> getPawnMoves(board, position)
             [] piece.type = "rook" -> getRookMoves(board, position)
             [] piece.type = "knight" -> getKnightMoves(board, position)
             [] piece.type = "bishop" -> getBishopMoves(board, position)
             [] piece.type = "queen" -> getQueenMoves(board, position)
             [] piece.type = "king" -> getKingMoves(board, position)
             [] OTHER -> {}

\* The first king of `color` in row-major order, or Null.
KingPosition(board, color) ==
  LET kings == {sq \in Squares :
                  LET piece == board[sq.row][sq.col]
                  IN  piece # Null /\ piece.type = "king" /\ piece.color = color}
  IN  IF kings = {} THEN Null
      ELSE CHOOSE k \in kings :
             \A o \in kings : k.row < o.row \/ (k.row = o.row /\ k.col <= o.col)

isKingInCheck(board, color) ==
  LET kingPosition == KingPosition(board, color)
  IN  /\ kingPosition # Null
      /\ \E sq \in Squares :
           LET piece == board[sq.row][sq.col]
           IN  /\ piece # Null
               /\ piece.color # color
               /\ kingPosition \in PseudoLegalMoves(board, sq)

simulateMove(board, from, to) ==
  LET piece == board[from.row][from.col]
  IN  [r \in Rows |-> [c \in Cols |->
         IF r = from.row /\ c = from.col THEN Null
         ELSE IF r = to.row /\ c = to.col THEN piece
         ELSE board[r][c]]]

\* getValidMoves without the filter on the mover's king.
getValidMovesUnfiltered(board, position) ==
  IF board[position.row][position.col] = Null THEN {}
  ELSE PseudoLegalMoves(board, position)

getValidMoves(board, position) ==
  LET piece == board[position.row][position.col]
  IN  IF piece = Null THEN {}
      ELSE {move \in PseudoLegalMoves(board, position) :
              ~isKingInCheck(simulateMove(board, position, move), piece.color)}

\* The double loop shared by isCheckmate and isStalemate: no piece of `color`
\* has a move left by getValidMoves.
NoValidMoves(board, color) ==
  \A sq \in Squares :
    LET piece == board[sq.row][sq.col]
    IN  (piece # Null /\ piece.color = color) => getValidMoves(board, sq) = {}

isCheckmate(board, color) == isKingInCheck(board, color) /\ NoValidMoves(board, color)

isStalemate(board, color) == ~isKingInCheck(board, color) /\ NoValidMoves(board, color)

(***************************************************************************)
(* components/ChessBoard.tsx: the game state machine.  A GameState is the  *)
(* record [board, currentTurn, status, selectedPosition, validMoves,       *)
(* moveHistory, capturedPieces]; a ChessMove is [from, to, capturedPiece,  *)
(* promotion, isCastle, isEnPassant].  Every handler is a function of the  *)
(* GameState it closes over and replaces the state in one setGameState.    *)
(***************************************************************************)
\* board[row][col] of a row of the board: an index off the row reads undefined.
At(board, row, col) == IF col \in Cols THEN board[row][col] ELSE Null

\* board[pos.row][pos.col] = piece: an index off the row adds a property to the
\* array and changes none of the row's eight squares.
Put(board, pos, piece) ==
  IF pos.col \in Cols THEN [board EXCEPT ![pos.row][pos.col] = piece] ELSE board

Abs(n) == IF n < 0 THEN -n ELSE n

\* capturedPieces with `piece` pushed on the ledger of its own colour.
PushCaptured(capturedPieces, piece) ==
  IF piece = Null THEN capturedPieces
  ELSE IF piece.color = "white"
       THEN [capturedPieces EXCEPT !.white = Append(@, piece)]
       ELSE [capturedPieces EXCEPT !.black = Append(@, piece)]

\* makeMove, lines 147-163: the rook (whatever stands on the corner) goes to the
\* square the king crosses and is marked moved.
CastleRook(board, from, to) ==
  LET isKingside == to.col > from.col
      rookFromCol == IF isKingside THEN 7 ELSE 0
      rookToCol == IF isKingside THEN from.col + 1 ELSE from.col - 1
      rook == board[from.row][rookFromCol]
  IN  IF rook # Null
      THEN Put(Put(board, Pos(from.row, rookToCol), [rook EXCEPT !.hasMoved = TRUE]),
               Pos(from.row, rookFromCol), Null)
      ELSE board

\* makeMove, lines 167-175: justMovedTwo is cleared on the pawns of the side to move.
ClearJustMovedTwo(board, currentTurn) ==
  [r \in Rows |-> [c \in Cols |->
     LET piece == board[r][c]
     IN  IF piece # Null /\ piece.type = "pawn" /\ piece.color = currentTurn
            /\ piece.justMovedTwo
         THEN [piece EXCEPT !.justMovedTwo = FALSE]
         ELSE piece]]

\* NewStatus with isCheckmate not asking whether the king is attacked.
NewStatusMateWithoutCheck(newBoard, nextTurn) ==
  IF NoValidMoves(newBoard, nextTurn) THEN "checkmate"
  ELSE IF isKingInCheck(newBoard, nextTurn) THEN "check"
  ELSE "playing"

\* NewStatus with the stalemate branch tested after the check branch and the
\* king's safety not asked for.
NewStatusStalemateFirst(newBoard, nextTurn) ==
  IF NoValidMoves(newBoard, nextTurn) THEN "stalemate"
  ELSE IF isKingInCheck(newBoard, nextTurn) THEN "check"
  ELSE "playing"

\* NewStatus without the branch that reports a check.
NewStatusWithoutCheck(newBoard, nextTurn) ==
  IF isCheckmate(newBoard, nextTurn) THEN "checkmate"
  ELSE IF isStalemate(newBoard, nextTurn) THEN "stalemate"
  ELSE "playing"

\* NewStatus reporting every check as checkmate.
NewStatusCheckIsMate(newBoard, nextTurn) ==
  IF isKingInCheck(newBoard, nextTurn) THEN "checkmate"
  ELSE IF isStalemate(newBoard, nextTurn) THEN "stalemate"
  ELSE "playing"

\* makeMove, lines 240-257: the status of the position handed to the side to move.
NewStatus(newBoard, nextTurn) ==
  IF isCheckmate(newBoard, nextTurn) THEN "checkmate"
  ELSE IF isStalemate(newBoard, nextTurn) THEN "stalemate"
  ELSE IF isKingInCheck(newBoard, nextTurn) THEN "check"
  ELSE "playing"

\* GameEndNotices naming the side that is mated as the winner.
GameEndNoticesNamesLoser(newStatus, currentTurn) ==
  IF newStatus = "checkmate" THEN <<Opponent(currentTurn)>>
  ELSE IF newStatus = "stalemate" THEN <<"draw">>
  ELSE <<>>

\* makeMove, lines 247-252: the onGameEnd notifications of a commit.
GameEndNotices(newStatus, currentTurn) ==
  IF newStatus = "checkmate" THEN <<currentTurn>>
  ELSE IF newStatus = "stalemate" THEN <<"draw">>
  ELSE <<>>

\* MakeMoveAccepts with the test `to.col < 0` left out.
MakeMoveAcceptsNoLowerColumn(gs, from, to) ==
  /\ from # Null /\ to # Null
  /\ from.row >= 0 /\ from.row <= 7 /\ from.col >= 0 /\ from.col <= 7
  /\ to.row >= 0 /\ to.row <= 7 /\ to.col <= 7
  /\ gs.board[from.row][from.col] # Null

\* makeMove, lines 116-132: the only conditions under which makeMove returns early.
MakeMoveAccepts(gs, from, to) ==
  /\ from # Null /\ to # Null
  /\ from.row >= 0 /\ from.row <= 7 /\ from.col >= 0 /\ from.col <= 7
  /\ to.row >= 0 /\ to.row <= 7 /\ to.col >= 0 /\ to.col <= 7
  /\ gs.board[from.row][from.col] # Null

\* RemoveEnPassantPawn clearing the destination square instead of the square
\* beside the capturing pawn.
RemoveEnPassantPawnAtDestination(board, from, to) ==
  IF At(board, from.row, to.col) # Null THEN Put(board, to, Null) ELSE board

\* makeMove, lines 186-201: whatever stands beside the capturing pawn, on the file
\* it moves to, is taken off the board.
RemoveEnPassantPawn(board, from, to) ==
  IF At(board, from.row, to.col) # Null THEN Put(board, Pos(from.row, to.col), Null)
  ELSE board

\* PlacedPiece promoting to a queen whatever piece was chosen.
PlacedPieceAlwaysQueen(movingPiece, from, to, promotionPiece) ==
  LET isMovingTwoSquares == movingPiece.type = "pawn" /\ Abs(from.row - to.row) = 2
      isPromotion == /\ movingPiece.type = "pawn"
                     /\ \/ movingPiece.color = "white" /\ to.row = 0
                        \/ movingPiece.color = "black" /\ to.row = 7
  IN  IF isPromotion /\ promotionPiece # NoPromotion
      THEN [type |-> "queen", color |-> movingPiece.color,
            hasMoved |-> TRUE, justMovedTwo |-> FALSE]
      ELSE [movingPiece EXCEPT !.hasMoved = TRUE, !.justMovedTwo = isMovingTwoSquares]

\* The piece makeMove puts on `to` (lines 213-226).
PlacedPiece(movingPiece, from, to, promotionPiece) ==
  LET isMovingTwoSquares == movingPiece.type = "pawn" /\ Abs(from.row - to.row) = 2
      isPromotion == /\ movingPiece.type = "pawn"
                     /\ \/ movingPiece.color = "white" /\ to.row = 0
                        \/ movingPiece.color = "black" /\ to.row = 7
  IN  IF isPromotion /\ promotionPiece # NoPromotion
      THEN [type |-> promotionPiece, color |-> movingPiece.color,
            hasMoved |-> TRUE, justMovedTwo |-> FALSE]
      ELSE [movingPiece EXCEPT !.hasMoved = TRUE, !.justMovedTwo = isMovingTwoSquares]

\* The capturedPiece makeMove writes into the ChessMove (line 231), read from the
\* board after every write of the move has been made.
RecordedCapture(newBoard, from, to, capturedPiece, isEnPassant) ==
  IF isEnPassant
  THEN (IF capturedPiece # Null THEN capturedPiece ELSE At(newBoard, from.row, to.col))
  ELSE capturedPiece

\* makeMove(from, to, promotionPiece) past its early returns: the new GameState,
\* the ChessMove and the notifications.
MakeMoveApply(gs, from, to, promotionPiece) ==
  LET board == gs.board
      currentTurn == gs.currentTurn
      movingPiece == board[from.row][from.col]
      capturedPiece == At(board, to.row, to.col)
      captured1 == PushCaptured(gs.capturedPieces, capturedPiece)
      isCastle == movingPiece.type = "king" /\ Abs(from.col - to.col) = 2
      board1 == IF isCastle THEN CastleRook(board, from, to) ELSE board
      board2 == ClearJustMovedTwo(board1, currentTurn)
      isEnPassant == movingPiece.type = "pawn" /\ from.col # to.col /\ capturedPiece = Null
      capturedPawn == At(board2, from.row, to.col)
      captured2 == IF isEnPassant THEN PushCaptured(captured1, capturedPawn) ELSE captured1
      board3 == IF isEnPassant THEN RemoveEnPassantPawn(board2, from, to) ELSE board2
      isPromotion == /\ movingPiece.type = "pawn"
                     /\ \/ movingPiece.color = "white" /\ to.row = 0
                        \/ movingPiece.color = "black" /\ to.row = 7
      newBoard == Put(Put(board3, to, PlacedPiece(movingPiece, from, to, promotionPiece)),
                      from, Null)
      move == [from |-> from, to |-> to,
               capturedPiece |-> RecordedCapture(newBoard, from, to, capturedPiece, isEnPassant),
               promotion |-> IF isPromotion THEN promotionPiece ELSE NoPromotion,
               isCastle |-> isCastle, isEnPassant |-> isEnPassant]
      nextTurn == Opponent(currentTurn)
      newStatus == NewStatus(newBoard, nextTurn)
  IN  [gameState |-> [board |-> newBoard, currentTurn |-> nextTurn, status |-> newStatus,
                      selectedPosition |-> Null, validMoves |-> {},
                      moveHistory |-> Append(gs.moveHistory, move),
                      capturedPieces |-> captured2],
       outcome |-> "applied", onMove |-> <<move>>,
       onGameEnd |-> GameEndNotices(newStatus, currentTurn)]

Rejected(gs) == [gameState |-> gs, outcome |-> "rejected", onMove |-> <<>>, onGameEnd |-> <<>>]

makeMove(gs, from, to, promotionPiece) ==
  IF MakeMoveAccepts(gs, from, to) THEN MakeMoveApply(gs, from, to, promotionPiece)
  ELSE Rejected(gs)

\* undoLastMove, lines 419-437: the piece on lastMove.to goes back to lastMove.from;
\* a promoted piece goes back as a pawn; hasMoved is cleared when the history holds
\* this one move only.
UndoMovePieceBack(board, lastMove, historyLength) ==
  LET movingPiece == board[lastMove.to.row][lastMove.to.col]
      wasFirstMove == ~movingPiece.hasMoved \/ historyLength = 1
  IN  IF movingPiece = Null THEN board
      ELSE IF lastMove.promotion # NoPromotion
      THEN Put(board, lastMove.from,
               [type |-> "pawn", color |-> movingPiece.color,
                hasMoved |-> TRUE, justMovedTwo |-> FALSE])
      ELSE Put(board, lastMove.from,
               [movingPiece EXCEPT !.hasMoved = IF wasFirstMove THEN FALSE ELSE TRUE])

\* undoLastMove, lines 445-459.
UndoCastleRook(board, lastMove) ==
  LET row == lastMove.from.row
      isKingside == lastMove.to.col > lastMove.from.col
      rookFromCol == IF isKingside THEN lastMove.from.col + 1 ELSE lastMove.from.col - 1
      rookToCol == IF isKingside THEN 7 ELSE 0
      rook == board[row][rookFromCol]
  IN  IF rook # Null /\ rook.type = "rook"
      THEN Put(Put(board, Pos(row, rookToCol), [rook EXCEPT !.hasMoved = FALSE]),
               Pos(row, rookFromCol), Null)
      ELSE board

\* Undo that leaves both ledgers as they are.
PopCapturedKeepsLedger(capturedPieces, piece) == capturedPieces

\* capturedPieces with the last entry of the ledger of `piece`'s colour dropped
\* (Array.prototype.slice(0, -1): an empty ledger stays empty).
PopCaptured(capturedPieces, piece) ==
  LET DropLast(q) == IF q = <<>> THEN q ELSE SubSeq(q, 1, Len(q) - 1)
  IN  IF piece = Null THEN capturedPieces
      ELSE IF piece.color = "white"
           THEN [capturedPieces EXCEPT !.white = DropLast(@)]
           ELSE [capturedPieces EXCEPT !.black = DropLast(@)]

\* undoLastMove leaving currentTurn as it is.
undoLastMoveKeepsTurn(gs) ==
  IF Len(gs.moveHistory) = 0 THEN gs
  ELSE [gs EXCEPT !.status = "playing", !.selectedPosition = Null, !.validMoves = {},
                  !.moveHistory = SubSeq(gs.moveHistory, 1, Len(gs.moveHistory) - 1)]

\* undoLastMove past its early return (lines 413-498).
UndoApply(gs) ==
    LET moveHistory == gs.moveHistory
        lastMove == moveHistory[Len(moveHistory)]
        board1 == UndoMovePieceBack(gs.board, lastMove, Len(moveHistory))
        board2 == Put(board1, lastMove.to, lastMove.capturedPiece)
        board3 == IF lastMove.isCastle THEN UndoCastleRook(board2, lastMove) ELSE board2
        newBoard == IF lastMove.isEnPassant /\ lastMove.capturedPiece # Null
                    THEN Put(board3, Pos(lastMove.from.row, lastMove.to.col),
                             lastMove.capturedPiece)
                    ELSE board3
    IN  [gs EXCEPT !.board = newBoard,
                   !.currentTurn = Opponent(gs.currentTurn),
                   !.status = "playing",
                   !.selectedPosition = Null,
                   !.validMoves = {},
                   !.moveHistory = SubSeq(moveHistory, 1, Len(moveHistory) - 1),
                   !.capturedPieces = PopCaptured(gs.capturedPieces, lastMove.capturedPiece)]

\* undoLastMove leaving the selection and its destinations as they were.
undoLastMoveKeepsSelection(gs) ==
  IF Len(gs.moveHistory) = 0 THEN gs
  ELSE [UndoApply(gs) EXCEPT !.selectedPosition = gs.selectedPosition,
                             !.validMoves = gs.validMoves]

\* undoLastMove changing the turn although the history is empty.
undoLastMoveFlipsTurnOnEmpty(gs) ==
  IF Len(gs.moveHistory) = 0 THEN [gs EXCEPT !.currentTurn = Opponent(@)]
  ELSE UndoApply(gs)

\* undoLastMove leaving the status as it was.
undoLastMoveKeepsStatus(gs) ==
  IF Len(gs.moveHistory) = 0 THEN gs
  ELSE [UndoApply(gs) EXCEPT !.status = gs.status]

undoLastMove(gs) == IF Len(gs.moveHistory) = 0 THEN gs ELSE UndoApply(gs)

\* The GameState of useState's initial value and of resetBoard.
InitialGameState ==
  [board |-> initializeBoard, currentTurn |-> "white", status |-> "playing",
   selectedPosition |-> Null, validMoves |-> {}, moveHistory |-> <<>>,
   capturedPieces |-> [white |-> <<>>, black |-> <<>>]]

\* handleSquareClick, lines 89-94: a click on a destination of the selected pawn
\* that lies on its last rank opens the promotion dialog.
IsPromotionMove(movingPiece, position) ==
  /\ movingPiece # Null
  /\ movingPiece.type = "pawn"
  /\ \/ movingPiece.color = "white" /\ position.row = 0
     \/ movingPiece.color = "black" /\ position.row = 7

\* handleSquareClick(position): the new GameState, the pending promotion it asks
\* for (Null when none) and, when it commits, makeMove's notifications.
handleSquareClick(gs, position) ==
  LET board == gs.board
      currentTurn == gs.currentTurn
      selectedPosition == gs.selectedPosition
      clickedPiece == board[position.row][position.col]
      ownPiece == clickedPiece # Null /\ clickedPiece.color = currentTurn
      selected == [gameState |-> [gs EXCEPT !.selectedPosition = position,
                                            !.validMoves = getValidMoves(board, position)],
                   outcome |-> "selected", pending |-> Null,
                   onMove |-> <<>>, onGameEnd |-> <<>>]
      cleared == [gs EXCEPT !.selectedPosition = Null, !.validMoves = {}]
      ignored == [gameState |-> gs, outcome |-> "ignored", pending |-> Null,
                  onMove |-> <<>>, onGameEnd |-> <<>>]
  IN  IF selectedPosition = Null
      THEN (IF ownPiece THEN selected ELSE ignored)
      ELSE IF position = selectedPosition
      THEN [gameState |-> cleared, outcome |-> "deselected", pending |-> Null,
            onMove |-> <<>>, onGameEnd |-> <<>>]
      ELSE IF ownPiece THEN selected
      ELSE IF position \in gs.validMoves
      THEN LET movingPiece == board[selectedPosition.row][selectedPosition.col]
           IN  IF IsPromotionMove(movingPiece, position)
               THEN [gameState |-> cleared, outcome |-> "promotionRequired",
                     pending |-> [from |-> selectedPosition, to |-> position,
                                  color |-> movingPiece.color],
                     onMove |-> <<>>, onGameEnd |-> <<>>]
               ELSE [pending |-> Null] @@ makeMove(gs, selectedPosition, position, NoPromotion)
      ELSE ignored

(***************************************************************************)
(* The environment.  A run starts either in the state the component is     *)
(* constructed in or in a state the component reaches from it when the     *)
(* scripted opening of a line of play is clicked through (Replay applies   *)
(* makeMove to each scripted move in turn, so the pieces' flags, the       *)
(* history and the ledgers are the ones the program has there).  From      *)
(* there the user clicks squares of the line, answers the promotion        *)
(* dialog, undoes and resets, and commands arrive through the handle the   *)
(* component exposes (the AI helper and the auto-response timer).          *)
(***************************************************************************)
Cmd(fromRow, fromCol, toRow, toCol) ==
  [from |-> Pos(fromRow, fromCol), to |-> Pos(toRow, toCol), promotion |-> NoPromotion]

CmdPromote(fromRow, fromCol, toRow, toCol, pieceType) ==
  [from |-> Pos(fromRow, fromCol), to |-> Pos(toRow, toCol), promotion |-> pieceType]

\* A step of a scripted opening that presses Undo instead of making a move.
UndoStep == [from |-> Null, to |-> Null, promotion |-> "undo"]

\* 1.e4 e5 2.Bc4 d6 3.Qf3 Na6 4.Qxf7#
ScholarsMate ==
  <<Cmd(6, 4, 4, 4), Cmd(1, 4, 3, 4), Cmd(7, 5, 4, 2), Cmd(1, 3, 2, 3), Cmd(7, 3, 5, 5),
    Cmd(0, 1, 2, 0), Cmd(5, 5, 1, 5)>>

\* Commands sent through the handle in every line: a source square off the board,
\* a destination off the board, and the source square a4, which is empty until a
\* rook is sent there.  Lines 1 and 2 add a rook lifted over its own pawn
\* (Ra1-a4), which no rule of chess allows.
CommonCommands == {Cmd(8, 0, 4, 4), Cmd(7, 0, 4, -1), Cmd(4, 0, 3, 0)}

Lines == <<
  \* 1: the starting position; e2-e4, e7-e5 and the white king's step to e2
  [script |-> <<>>,
   clicks |-> {Pos(6, 4), Pos(4, 4), Pos(1, 4), Pos(3, 4), Pos(7, 4)},
   commands |-> {Cmd(6, 4, 4, 4), Cmd(7, 0, 4, 0)}],
  \* 2: 1.f3 e5 2.g4, black to move: Qd8-h4 mates, Qd8-g5 does not
  [script |-> <<Cmd(6, 5, 5, 5), Cmd(1, 4, 3, 4), Cmd(6, 6, 4, 6)>>,
   clicks |-> {Pos(0, 3), Pos(4, 7), Pos(3, 6), Pos(7, 4)},
   commands |-> {Cmd(0, 3, 4, 7), Cmd(7, 0, 4, 0)}],
  \* 3: 1.e4 f5 2.Qh5+, black in check: g7-g6 is the only reply
  [script |-> <<Cmd(6, 4, 4, 4), Cmd(1, 5, 3, 5), Cmd(7, 3, 3, 7)>>,
   clicks |-> {Pos(1, 6), Pos(2, 6), Pos(0, 4), Pos(3, 7)},
   commands |-> {Cmd(0, 4, 1, 5)}],
  \* 4: 1.e4 a6 2.e5, black to move: d7-d5 allows e5xd6 en passant, d7-d6 a capture
  [script |-> <<Cmd(6, 4, 4, 4), Cmd(1, 0, 2, 0), Cmd(4, 4, 3, 4)>>,
   clicks |-> {Pos(1, 3), Pos(3, 3), Pos(2, 3), Pos(3, 4)},
   commands |-> {Cmd(3, 4, 2, 3)}],
  \* 5: 1.e4 e5 2.Nf3 Nc6 3.Bc4 Bc5, white to move: O-O, Ke1-f1, Rh1-g1, Bc4xf7+
  [script |-> <<Cmd(6, 4, 4, 4), Cmd(1, 4, 3, 4), Cmd(7, 6, 5, 5), Cmd(0, 1, 2, 2),
                Cmd(7, 5, 4, 2), Cmd(0, 5, 3, 2)>>,
   clicks |-> {Pos(7, 4), Pos(7, 6), Pos(7, 5), Pos(7, 7), Pos(0, 6), Pos(2, 5)},
   commands |-> {Cmd(7, 4, 7, 6), Cmd(4, 2, 1, 5)}],
  \* 6: 1.h4 g5 2.hxg5 h6 3.gxh6 Bg7 4.hxg7 Nf6, white to move: g7-g8 and g7xh8 promote
  [script |-> <<Cmd(6, 7, 4, 7), Cmd(1, 6, 3, 6), Cmd(4, 7, 3, 6), Cmd(1, 7, 2, 7),
                Cmd(3, 6, 2, 7), Cmd(0, 5, 1, 6), Cmd(2, 7, 1, 6), Cmd(0, 6, 2, 5)>>,
   clicks |-> {Pos(1, 6), Pos(0, 6), Pos(0, 7)},
   commands |-> {Cmd(1, 6, 0, 6), CmdPromote(1, 6, 0, 7, "queen")}],
  \* 7: 1.e3 a5 2.Qh5 Ra6 3.Qxa5 h5 4.h4 Rah6 5.Qxc7 f6 6.Qxd7+ Kf7 7.Qxb7 Qd3
  \*    8.Qxb8 Qh7 9.Qxc8 Kg6, white to move: Qc8-e6 stalemates (S. Loyd)
  [script |-> <<Cmd(6, 4, 5, 4), Cmd(1, 0, 3, 0), Cmd(7, 3, 3, 7), Cmd(0, 0, 2, 0),
                Cmd(3, 7, 3, 0), Cmd(1, 7, 3, 7), Cmd(6, 7, 4, 7), Cmd(2, 0, 2, 7),
                Cmd(3, 0, 1, 2), Cmd(1, 5, 2, 5), Cmd(1, 2, 1, 3), Cmd(0, 4, 1, 5),
                Cmd(1, 3, 1, 1), Cmd(0, 3, 5, 3), Cmd(1, 1, 0, 1), Cmd(5, 3, 1, 7),
                Cmd(0, 1, 0, 2), Cmd(1, 5, 2, 6)>>,
   clicks |-> {Pos(0, 2), Pos(2, 4), Pos(0, 3), Pos(2, 6)},
   commands |-> {Cmd(0, 2, 2, 4)}],
  \* 8: 1.e4 d5 2.exd5 Nf6 3.d6 g6 4.dxe7 Bg7 5.a3, black to move: the white pawn
  \*    on e7 attacks f8, which the king crosses in O-O
  [script |-> <<Cmd(6, 4, 4, 4), Cmd(1, 3, 3, 3), Cmd(4, 4, 3, 3), Cmd(0, 6, 2, 5),
                Cmd(3, 3, 2, 3), Cmd(1, 6, 2, 6), Cmd(2, 3, 1, 4), Cmd(0, 5, 1, 6),
                Cmd(6, 0, 5, 0)>>,
   clicks |-> {Pos(0, 4), Pos(0, 6)},
   commands |-> {}],
  \* 9: 1.e4 e5 2.Bc4 d6 3.Qf3 Na6, white to move: Qf3xf7 mates
  [script |-> SubSeq(ScholarsMate, 1, 6),
   clicks |-> {Pos(5, 5), Pos(1, 5)},
   commands |-> {}],
  \* 10: 1.e4 d5 2.exd5 a6 3.Nf3 h6 4.Nd4 b6 5.Qe2 e5, white to move: d5xe6 en
  \*     passant takes the only piece between the queen on e2 and the king on e8;
  \*     Nd4-e6 puts a white piece on the square the d5 pawn would capture to
  [script |-> <<Cmd(6, 4, 4, 4), Cmd(1, 3, 3, 3), Cmd(4, 4, 3, 3), Cmd(1, 0, 2, 0),
                Cmd(7, 6, 5, 5), Cmd(1, 7, 2, 7), Cmd(5, 5, 4, 3), Cmd(1, 1, 2, 1),
                Cmd(7, 3, 6, 4), Cmd(1, 4, 3, 4)>>,
   clicks |-> {Pos(3, 3), Pos(2, 4), Pos(6, 4), Pos(0, 4), Pos(4, 3)},
   commands |-> {}],
  \* 11: 1.e4 e6 2.e5 Qg5 3.Ke2 h6 4.Kd3 h5 5.Kc4 g6 6.Kb5 d5, white to move: on the
  \*     fifth rank the pawns on d5 and e5 are all that stands between the white
  \*     king on b5 and the black queen on g5
  [script |-> <<Cmd(6, 4, 4, 4), Cmd(1, 4, 2, 4), Cmd(4, 4, 3, 4), Cmd(0, 3, 3, 6),
                Cmd(7, 4, 6, 4), Cmd(1, 7, 2, 7), Cmd(6, 4, 5, 3), Cmd(2, 7, 3, 7),
                Cmd(5, 3, 4, 2), Cmd(1, 6, 2, 6), Cmd(4, 2, 3, 1), Cmd(1, 3, 3, 3)>>,
   clicks |-> {Pos(3, 4), Pos(2, 3)},
   commands |-> {}],
  \* 12: 1.a3 e5 2.a4 e4 3.d4 exd3 (en passant), two undos, Ke1-d2 and five
  \*     undos: the history is empty and white is to move, the white d-pawn is
  \*     gone (the undo of an en passant capture does not put it back) and the
  \*     king stands on e1 with hasMoved still set
  [script |-> <<Cmd(6, 0, 5, 0), Cmd(1, 4, 3, 4), Cmd(5, 0, 4, 0), Cmd(3, 4, 4, 4),
                Cmd(6, 3, 4, 3), Cmd(4, 4, 5, 3), UndoStep, UndoStep, Cmd(7, 4, 6, 3),
                UndoStep, UndoStep, UndoStep, UndoStep, UndoStep>>,
   clicks |-> {Pos(7, 4), Pos(6, 3)},
   commands |-> {}]
>>

MaxSteps == 3

RECURSIVE ReplayFrom(_, _, _)
ReplayFrom(gs, script, i) ==
  IF i > Len(script) THEN gs
  ELSE IF script[i] = UndoStep THEN ReplayFrom(undoLastMove(gs), script, i + 1)
  ELSE ReplayFrom(makeMove(gs, script[i].from, script[i].to, script[i].promotion).gameState,
                  script, i + 1)

Replay(script) == ReplayFrom(InitialGameState, script, 1)

\* App's useState values that the board's callbacks and the game controls
\* touch: the mirrored moveHistory and capturedPieces, userColor, whether a
\* match is being recorded (currentMatchId), the AI replies still awaited, and,
\* as an observation, the snapshot of the reply whose move the last call handed
\* to the board.
InitialApp ==
  [moveHistory |-> <<>>, capturedPieces |-> [white |-> <<>>, black |-> <<>>],
   userColor |-> "white", currentMatchId |-> FALSE, aiReplies |-> {}, arrived |-> Null]

VARIABLES
  gameState,          \* useState<GameState>
  showPawnPromotion,  \* useState(false)
  pendingPromotion,   \* useState<{from, to, color} | null>
  line,               \* the line of play of this run (an index of Lines)
  steps,              \* commits, undos and resets made so far in this run
  last,               \* the last call: its arguments, the state it found, what it emitted
  app                 \* App's own state: its mirrors and the AI replies it awaits

vars == <<gameState, showPawnPromotion, pendingPromotion, line, steps, last, app>>

Call(op, outcome, from, to, promotion, onMove, onGameEnd) ==
  [op |-> op, outcome |-> outcome, from |-> from, to |-> to, promotion |-> promotion,
   pre |-> gameState, prePending |-> pendingPromotion,
   onMove |-> onMove, onGameEnd |-> onGameEnd]

Init ==
  /\ line \in 1 .. Len(Lines)
  /\ gameState = Replay(Lines[line].script)
  /\ showPawnPromotion = FALSE
  /\ pendingPromotion = Null
  /\ steps = 0
  /\ last = [op |-> "none", outcome |-> "none", from |-> Null, to |-> Null,
             promotion |-> NoPromotion, pre |-> gameState, prePending |-> Null,
             onMove |-> <<>>, onGameEnd |-> <<>>]
  /\ app = InitialApp

\* The branch of handleSquareClick that calls makeMove.
ClickCallsMakeMove(gs, position) ==
  /\ gs.selectedPosition # Null
  /\ position # gs.selectedPosition
  /\ ~(/\ gs.board[position.row][position.col] # Null
       /\ gs.board[position.row][position.col].color = gs.currentTurn)
  /\ position \in gs.validMoves
  /\ ~IsPromotionMove(gs.board[gs.selectedPosition.row][gs.selectedPosition.col], position)

\* The user clicks a square of the board.
Click(position) ==
  /\ ClickCallsMakeMove(gameState, position) => steps < MaxSteps
  /\ \E r \in {handleSquareClick(gameState, position)} :
      /\ r.outcome = "applied" => steps < MaxSteps
      /\ gameState' = r.gameState
      /\ showPawnPromotion' = IF r.outcome = "promotionRequired" THEN TRUE
                              ELSE showPawnPromotion
      /\ pendingPromotion' = IF r.outcome = "promotionRequired" THEN r.pending
                             ELSE pendingPromotion
      /\ steps' = IF r.outcome = "applied" THEN steps + 1 ELSE steps
      /\ last' = Call("click", r.outcome, gameState.selectedPosition, position, NoPromotion,
                      r.onMove, r.onGameEnd)
      /\ UNCHANGED line

\* The user picks a piece in the promotion dialog, which is rendered while
\* showPawnPromotion && pendingPromotion.
HandlePawnPromotion(pieceType) ==
  /\ showPawnPromotion
  /\ pendingPromotion # Null
  /\ steps < MaxSteps
  /\ \E r \in {makeMove(gameState, pendingPromotion.from, pendingPromotion.to, pieceType)} :
         /\ gameState' = r.gameState
         /\ steps' = IF r.outcome = "applied" THEN steps + 1 ELSE steps
         /\ last' = Call("promotion", r.outcome, pendingPromotion.from, pendingPromotion.to,
                         pieceType, r.onMove, r.onGameEnd)
  /\ showPawnPromotion' = FALSE
  /\ pendingPromotion' = Null
  /\ UNCHANGED line

HandlePromotionCancel ==
  /\ showPawnPromotion
  /\ pendingPromotion # Null
  /\ showPawnPromotion' = FALSE
  /\ pendingPromotion' = Null
  /\ last' = Call("cancel", "none", Null, Null, NoPromotion, <<>>, <<>>)
  /\ UNCHANGED <<gameState, line, steps>>

\* A command arrives through the handle: useImperativeHandle's makeMove(move).
HandleMakeMove(move) ==
  /\ MakeMoveAccepts(gameState, move.from, move.to) => steps < MaxSteps
  /\ \E r \in {makeMove(gameState, move.from, move.to, move.promotion)} :
      /\ r.outcome = "applied" => steps < MaxSteps
      /\ gameState' = r.gameState
      /\ steps' = IF r.outcome = "applied" THEN steps + 1 ELSE steps
      /\ last' = Call("makeMove", r.outcome, move.from, move.to, move.promotion,
                      r.onMove, r.onGameEnd)
      /\ UNCHANGED <<showPawnPromotion, pendingPromotion, line>>

UndoLastMove ==
  /\ steps < MaxSteps
  /\ gameState' = undoLastMove(gameState)
  /\ steps' = steps + 1
  /\ last' = Call("undo", IF Len(gameState.moveHistory) = 0 THEN "ignored" ELSE "applied",
                  Null, Null, NoPromotion, <<>>, <<>>)
  /\ UNCHANGED <<showPawnPromotion, pendingPromotion, line>>

\* ResetBoard leaving the promotion dialog as it is.
ResetBoardKeepsPromotion ==
  /\ steps < MaxSteps
  /\ gameState' = InitialGameState
  /\ steps' = steps + 1
  /\ last' = Call("reset", "applied", Null, Null, NoPromotion, <<>>, <<>>)
  /\ UNCHANGED <<showPawnPromotion, pendingPromotion, line>>

ResetBoard ==
  /\ steps < MaxSteps
  /\ gameState' = InitialGameState
  /\ showPawnPromotion' = FALSE
  /\ pendingPromotion' = Null
  /\ steps' = steps + 1
  /\ last' = Call("reset", "applied", Null, Null, NoPromotion, <<>>, <<>>)
  /\ UNCHANGED line

Next ==
  \/ \E position \in Lines[line].clicks : Click(position) /\ UNCHANGED app
  \/ \E pieceType \in PromotionTypes : HandlePawnPromotion(pieceType) /\ UNCHANGED app
  \/ HandlePromotionCancel /\ UNCHANGED app
  \/ \E move \in CommonCommands \cup Lines[line].commands :
       HandleMakeMove(move) /\ UNCHANGED app
  \/ UndoLastMove /\ UNCHANGED app
  \/ ResetBoard /\ UNCHANGED app

Spec == Init /\ [][Next]_vars

\* The user alone: no command arrives through the handle.
NextUser ==
  \/ \E position \in Lines[line].clicks : Click(position) /\ UNCHANGED app
  \/ \E pieceType \in PromotionTypes : HandlePawnPromotion(pieceType) /\ UNCHANGED app
  \/ HandlePromotionCancel /\ UNCHANGED app
  \/ UndoLastMove /\ UNCHANGED app
  \/ ResetBoard /\ UNCHANGED app

SpecUser == Init /\ [][NextUser]_vars

(***************************************************************************)
(* The application around the board.  App mirrors the board's history and  *)
(* ledgers from the onMove callback, forwards Undo and New Game to the     *)
(* board through the handle, and, with auto-response enabled and an API    *)
(* key configured, asks the AI for a reply and hands the move it gets to   *)
(* the handle's makeMove when the reply arrives.                           *)
(***************************************************************************)
\* What an AI request is given of the GameState it was computed for.
Snapshot(gs) == [board |-> gs.board, currentTurn |-> gs.currentTurn]

\* handleMove, lines 89-98: the mirrors after onMove(move).
MirrorMove(a, move) ==
  [a EXCEPT !.moveHistory = Append(@, move),
            !.capturedPieces = PushCaptured(@, move.capturedPiece)]

\* handleMove(move), called by makeMove while the board still renders `pre` and
\* has queued `post`.  getGameState() is read from the handle of the last
\* render: with no match recorded it is read in the same call stack and returns
\* `pre`; with a match it is read after the await of matchService.addMove, when
\* the board has rendered `post`.
handleMove(a, move, pre, post) ==
  LET currentState == IF a.currentMatchId THEN post ELSE pre
  IN  IF currentState.currentTurn # a.userColor
      THEN [MirrorMove(a, move) EXCEPT
              !.aiReplies = @ \cup {[kind |-> "reply", snapshot |-> Snapshot(currentState)]}]
      ELSE MirrorMove(a, move)

\* handleGameEnd: the match, if any, is ended.
handleGameEnd(a) == [a EXCEPT !.currentMatchId = FALSE]

\* App after a call into the board that emitted the notices onMove, onGameEnd.
AfterNotices(a, onMove, onGameEnd, pre, post) ==
  LET moved == IF onMove = <<>> THEN a ELSE handleMove(a, onMove[1], pre, post)
      ended == IF onGameEnd = <<>> THEN moved ELSE handleGameEnd(moved)
  IN  [ended EXCEPT !.arrived = Null]

\* The mirrors after the scripted opening of a line has been played on the board.
RECURSIVE AppReplayFrom(_, _, _, _)
AppReplayFrom(a, gs, script, i) ==
  IF i > Len(script) THEN a
  ELSE AppReplayFrom(MirrorMove(a, makeMove(gs, script[i].from, script[i].to,
                                            script[i].promotion).onMove[1]),
                     makeMove(gs, script[i].from, script[i].to,
                              script[i].promotion).gameState,
                     script, i + 1)

\* The lines of play explored with the application around the board: the
\* starting position, the mate in one, the en passant capture and the promotion.
AppLines == {1, 2, 4, 6}

\* The AI replies still awaited at one time.
MaxAIReplies == 1

\* Moves the AI is seen to suggest: e7-e5, d7-d5, e2-e4 and d2-d4.
AISuggestions == {Cmd(1, 4, 3, 4), Cmd(1, 3, 3, 3), Cmd(6, 4, 4, 4), Cmd(6, 3, 4, 3)}

\* generateMoveForSkillLevel(snapshot, ...) resolving to a move: the suggestions
\* that are legal moves of the side to move in the position it was given.
AIAnswers(snapshot) ==
  {m \in AISuggestions :
     /\ snapshot.board[m.from.row][m.from.col] # Null
     /\ snapshot.board[m.from.row][m.from.col].color = snapshot.currentTurn
     /\ m.to \in getValidMoves(snapshot.board, m.from)}

InitApp ==
  /\ line \in AppLines
  /\ gameState = Replay(Lines[line].script)
  /\ showPawnPromotion = FALSE
  /\ pendingPromotion = Null
  /\ steps = 0
  /\ last = [op |-> "none", outcome |-> "none", from |-> Null, to |-> Null,
             promotion |-> NoPromotion, pre |-> gameState, prePending |-> Null,
             onMove |-> <<>>, onGameEnd |-> <<>>]
  /\ \E userColor \in {"white", "black"}, currentMatchId \in BOOLEAN :
       app = [AppReplayFrom(InitialApp, InitialGameState, Lines[line].script, 1)
                EXCEPT !.userColor = userColor, !.currentMatchId = currentMatchId]

\* App's part of a call into the board that came from the user.
AppNotified ==
  /\ app' = AfterNotices(app, last'.onMove, last'.onGameEnd, gameState, gameState')
  /\ Cardinality(app'.aiReplies) <= MaxAIReplies

AppClick(position) == Click(position) /\ AppNotified

AppPawnPromotion(pieceType) == HandlePawnPromotion(pieceType) /\ AppNotified

AppPromotionCancel == HandlePromotionCancel /\ app' = [app EXCEPT !.arrived = Null]

\* handleUndo, lines 264-294.
HandleUndo ==
  /\ Len(app.moveHistory) > 0
  /\ UndoLastMove
  /\ app' = [app EXCEPT
       !.moveHistory = SubSeq(@, 1, Len(@) - 1),
       !.capturedPieces =
          PopCaptured(@, app.moveHistory[Len(app.moveHistory)].capturedPiece),
       !.arrived = Null]

\* handleNewGame, lines 177-262: the mirrors are emptied, the board is reset, a
\* match is started, and the AI is asked to open when the user plays black.  The
\* replies already awaited are left as they are.
HandleNewGame ==
  /\ ResetBoard
  /\ app' = [app EXCEPT
       !.moveHistory = <<>>,
       !.capturedPieces = [white |-> <<>>, black |-> <<>>],
       !.currentMatchId = TRUE,
       !.aiReplies = @ \cup (IF app.userColor = "black"
                             THEN {[kind |-> "opening", snapshot |-> Null]} ELSE {}),
       !.arrived = Null]
  /\ Cardinality(app'.aiReplies) <= MaxAIReplies

\* The timer of handleNewGame fires (lines 206-211): the position is read now
\* and the AI is asked for white's move if white is to move.
OpeningTimerFires ==
  /\ \E reply \in app.aiReplies :
       /\ reply.kind = "opening"
       /\ app' = [app EXCEPT
            !.aiReplies = (@ \ {reply}) \cup
               (IF gameState.currentTurn = "white"
                THEN {[kind |-> "reply", snapshot |-> Snapshot(gameState)]} ELSE {}),
            !.arrived = Null]
  /\ UNCHANGED <<gameState, showPawnPromotion, pendingPromotion, line, steps, last>>

\* The AI request resolves to null: nothing is handed to the board.
AIReplyFails ==
  /\ \E reply \in app.aiReplies :
       /\ reply.kind = "reply"
       /\ app' = [app EXCEPT !.aiReplies = @ \ {reply}, !.arrived = Null]
  /\ UNCHANGED <<gameState, showPawnPromotion, pendingPromotion, line, steps, last>>

\* The AI request resolves to a move: chessBoardRef.current.makeMove(aiMove)
\* (handleMove 112-127, handleNewGame 214-231).
AIReplyArrives ==
  \E reply \in app.aiReplies :
    /\ reply.kind = "reply"
    /\ \E aiMove \in AIAnswers(reply.snapshot) :
         /\ HandleMakeMove(aiMove)
         /\ app' = [AfterNotices([app EXCEPT !.aiReplies = @ \ {reply}],
                                 last'.onMove, last'.onGameEnd, gameState, gameState')
                      EXCEPT !.arrived = reply.snapshot]
         /\ Cardinality(app'.aiReplies) <= MaxAIReplies

NextApp ==
  \/ \E position \in Lines[line].clicks : AppClick(position)
  \/ \E pieceType \in PromotionTypes : AppPawnPromotion(pieceType)
  \/ AppPromotionCancel
  \/ HandleUndo
  \/ HandleNewGame
  \/ OpeningTimerFires
  \/ AIReplyFails
  \/ AIReplyArrives

SpecApp == InitApp /\ [][NextApp]_vars

\* Every scripted move is one the board offers at its turn.
RECURSIVE ScriptLegalFrom(_, _, _)
ScriptLegalFrom(gs, script, i) ==
  \/ i > Len(script)
  \/ /\ script[i] = UndoStep
     /\ Len(gs.moveHistory) > 0
     /\ ScriptLegalFrom(undoLastMove(gs), script, i + 1)
  \/ /\ script[i] # UndoStep
     /\ gs.board[script[i].from.row][script[i].from.col] # Null
     /\ gs.board[script[i].from.row][script[i].from.col].color = gs.currentTurn
     /\ script[i].to \in getValidMoves(gs.board, script[i].from)
     /\ ScriptLegalFrom(makeMove(gs, script[i].from, script[i].to, script[i].promotion).gameState,
                        script, i + 1)

ScriptsLegal == \A i \in 1 .. Len(Lines) : ScriptLegalFrom(InitialGameState, Lines[i].script, 1)

(***************************************************************************)
(* Properties                                                              *)
(***************************************************************************)
\* The part of a GameState the claims speak of.
Core(gs) ==
  [board |-> gs.board, currentTurn |-> gs.currentTurn, status |-> gs.status,
   moveHistory |-> gs.moveHistory, capturedPieces |-> gs.capturedPieces]

\* The last call went through makeMove (from a click, the promotion dialog or the
\* handle) ...
LastWasMakeMove == last.op = "makeMove" \/ last.op = "promotion"
                   \/ (last.op = "click" /\ last.outcome \in {"applied", "rejected"})

\* ... and committed a move.
LastCommitted == LastWasMakeMove /\ last.outcome = "applied"

\* The board of this state is the one the run starts with or the one the last call
\* wrote (a click that only selects, a cancel or a rejected call leaves the board).
BoardIsNew == last.op \in {"none", "undo", "reset"} \/ LastCommitted

OnBoard(pos) == pos.row \in Rows /\ pos.col \in Cols

\* Some piece of `color` has a destination left by getValidMoves.
HasLegalMove(board, color) ==
  \E sq \in Squares :
    /\ board[sq.row][sq.col] # Null
    /\ board[sq.row][sq.col].color = color
    /\ getValidMoves(board, sq) # {}

\* C1: a makeMove command through the handle whose source holds a piece and whose
\* destination is not in getValidMoves(board, from) leaves board, currentTurn,
\* status, moveHistory and capturedPieces unchanged.
C1_IllegalDestinationRejected ==
  (/\ last.op = "makeMove"
   /\ OnBoard(last.from) /\ OnBoard(last.to)
   /\ last.pre.board[last.from.row][last.from.col] # Null
   /\ last.to \notin getValidMoves(last.pre.board, last.from))
  => Core(gameState) = Core(last.pre)

PawnOnLastRank(board) ==
  \E c \in Cols :
    \/ board[0][c] # Null /\ board[0][c].type = "pawn" /\ board[0][c].color = "white"
    \/ board[7][c] # Null /\ board[7][c].type = "pawn" /\ board[7][c].color = "black"

\* C2: makeMove for a pawn whose destination is its last rank, called without a
\* promotion piece, changes nothing of board, currentTurn, status, moveHistory and
\* capturedPieces; and no pawn ever stands on its last rank.
C2_PromotionRequiredSuspends ==
  /\ (/\ LastWasMakeMove
      /\ OnBoard(last.from) /\ OnBoard(last.to)
      /\ IsPromotionMove(last.pre.board[last.from.row][last.from.col], last.to)
      /\ last.promotion = NoPromotion)
     => Core(gameState) = Core(last.pre)
  /\ ~PawnOnLastRank(gameState.board)

\* The command of the last call names a square off the board or an empty source.
LastCommandMalformed ==
  \/ ~OnBoard(last.from)
  \/ ~OnBoard(last.to)
  \/ last.pre.board[last.from.row][last.from.col] = Null

\* C3: makeMove with `from` or `to` off the board, or with an empty `from` square,
\* leaves the game state unchanged and emits no onMove.
C3_MalformedCommandIsNoOp ==
  (last.op = "makeMove" /\ LastCommandMalformed)
  => /\ Core(gameState) = Core(last.pre)
     /\ last.onMove = <<>>
     /\ last.onGameEnd = <<>>

\* C3 happens: after at least one committed move, a command with a destination off
\* the board has been sent through the handle.
C3_Witness ==
  /\ last.op = "makeMove"
  /\ OnBoard(last.from) /\ ~OnBoard(last.to)
  /\ last.pre.board[last.from.row][last.from.col] # Null
  /\ Len(gameState.moveHistory) > Len(Lines[line].script)

\* The status the four-way transition gives for the side to move.
StatusOf(board, color) ==
  IF ~HasLegalMove(board, color)
  THEN (IF isKingInCheck(board, color) THEN "checkmate" ELSE "stalemate")
  ELSE (IF isKingInCheck(board, color) THEN "check" ELSE "playing")

\* C4: in every reachable state the stored status is the one the transition
\* computes from (board, currentTurn).
C4_StatusNeverStale ==
  gameState.status = StatusOf(gameState.board, gameState.currentTurn)

\* C5: right after a committed move, status is checkmate exactly when the side to
\* move has no legal move and its king is in check.
C5_CheckmateIff ==
  LastCommitted =>
    (gameState.status = "checkmate"
       <=> (/\ isKingInCheck(gameState.board, gameState.currentTurn)
            /\ ~HasLegalMove(gameState.board, gameState.currentTurn)))

\* C5 happens: a committed move has mated.
C5_Witness == LastCommitted /\ gameState.status = "checkmate"

\* Black king a8, white king b6, white queen c7 (each has moved).
StalemateExampleBoard ==
  [r \in Rows |-> [c \in Cols |->
     CASE r = 0 /\ c = 0 -> [Piece("king", "black") EXCEPT !.hasMoved = TRUE]
       [] r = 2 /\ c = 1 -> [Piece("king", "white") EXCEPT !.hasMoved = TRUE]
       [] r = 1 /\ c = 2 -> [Piece("queen", "white") EXCEPT !.hasMoved = TRUE]
       [] OTHER -> Null]]

\* On the example board with black to move the king has no legal move, is not in
\* check, and the status computed is stalemate.
StalemateExampleIsStalemate ==
  /\ getValidMoves(StalemateExampleBoard, Pos(0, 0)) = {}
  /\ ~isKingInCheck(StalemateExampleBoard, "black")
  /\ NewStatus(StalemateExampleBoard, "black") = "stalemate"

\* C6: right after a committed move, status is stalemate exactly when the side to
\* move has no legal move and its king is not attacked; and on the example board
\* (black king a8, white king b6, white queen c7, black to move) the king has no
\* legal move, is not in check, and the status computed is stalemate.
C6_StalemateIff ==
  /\ LastCommitted =>
       (gameState.status = "stalemate"
          <=> (/\ ~HasLegalMove(gameState.board, gameState.currentTurn)
               /\ ~isKingInCheck(gameState.board, gameState.currentTurn)))
  /\ StalemateExampleIsStalemate

\* C6 happens: a committed move has stalemated.
C6_Witness == LastCommitted /\ gameState.status = "stalemate"

\* C7: white is to move exactly when the history has even length; a committed
\* move appends one entry and flips the turn; a rejected one appends none.
C7_TurnParity ==
  /\ gameState.currentTurn = (IF Len(gameState.moveHistory) % 2 = 0 THEN "white" ELSE "black")
  /\ LastCommitted =>
       /\ Len(gameState.moveHistory) = Len(last.pre.moveHistory) + 1
       /\ gameState.currentTurn = Opponent(last.pre.currentTurn)
  /\ (LastWasMakeMove /\ last.outcome = "rejected") =>
       /\ gameState.moveHistory = last.pre.moveHistory
       /\ gameState.currentTurn = last.pre.currentTurn

\* C7 happens: an undo has taken a move back and left black to move.
C7_Witness ==
  /\ last.op = "undo" /\ last.outcome = "applied"
  /\ Len(gameState.moveHistory) % 2 = 1
  /\ Len(last.pre.moveHistory) = Len(gameState.moveHistory) + 1

\* The legal moves of the side to move: source, destination and, for a pawn
\* reaching its last rank, each promotion choice.
LegalCommands(gs) ==
  UNION {
    UNION {
      {[from |-> sq, to |-> d, promotion |-> p] :
         p \in IF IsPromotionMove(gs.board[sq.row][sq.col], d)
               THEN PromotionTypes ELSE {NoPromotion}} :
      d \in getValidMoves(gs.board, sq)} :
    sq \in {s \in Squares : gs.board[s.row][s.col] # Null
                            /\ gs.board[s.row][s.col].color = gs.currentTurn}}

\* The state after makeMove(m) followed by undoLastMove.
CommitThenUndo(gs, m) == undoLastMove(makeMove(gs, m.from, m.to, m.promotion).gameState)

Occupancy(board) ==
  [r \in Rows |-> [c \in Cols |->
     IF board[r][c] = Null THEN Null
     ELSE [type |-> board[r][c].type, color |-> board[r][c].color]]]

\* C8: committing any legal move and undoing it gives back the board occupancy and
\* both captured-piece ledgers.
C8_UndoRoundTrip ==
  \A m \in LegalCommands(gameState) :
      /\ Occupancy(CommitThenUndo(gameState, m).board) = Occupancy(gameState.board)
      /\ CommitThenUndo(gameState, m).capturedPieces = gameState.capturedPieces

Flags(board) ==
  [r \in Rows |-> [c \in Cols |->
     IF board[r][c] = Null THEN Null
     ELSE [hasMoved |-> board[r][c].hasMoved, justMovedTwo |-> board[r][c].justMovedTwo]]]

\* C9: committing any legal move and undoing it gives every piece the hasMoved and
\* justMovedTwo it had.
C9_UndoRestoresFlags ==
  \A m \in LegalCommands(gameState) :
      Flags(CommitThenUndo(gameState, m).board) = Flags(gameState.board)

\* The last committed move, on the board it was made on, was a pawn's diagonal step
\* onto an empty square beside an enemy pawn.
LastWasEnPassant ==
  LET pre == last.pre.board
      mover == pre[last.from.row][last.from.col]
      beside == pre[last.from.row][last.to.col]
  IN  /\ mover.type = "pawn"
      /\ last.from.col # last.to.col
      /\ pre[last.to.row][last.to.col] = Null
      /\ beside # Null /\ beside.type = "pawn" /\ beside.color # mover.color

\* C10: the Move a committed en passant appends has isEnPassant and, as
\* capturedPiece, the enemy pawn taken from (from.row, to.col); the Move of any
\* other capture records the piece that stood on `to`.
C10_RecordedCapture ==
  LastCommitted =>
    LET move == gameState.moveHistory[Len(gameState.moveHistory)]
        pre == last.pre.board
    IN  IF LastWasEnPassant
        THEN move.isEnPassant /\ move.capturedPiece = pre[last.from.row][last.to.col]
        ELSE pre[last.to.row][last.to.col] # Null
               => move.capturedPiece = pre[last.to.row][last.to.col]
OwnersLastMove(moveHistory, color) ==
  LET n == Len(moveHistory)
      lastIsOwners == (n % 2 = 1) <=> (color = "white")
  IN  IF lastIsOwners THEN n ELSE IF n = 0 THEN 0 ELSE n - 1

\* The entry is a two-row advance that ended on `sq`.
IsDoubleStepTo(move, sq) == move.to = sq /\ Abs(move.from.row - move.to.row) = 2

\* C12: a piece has justMovedTwo only if it is a pawn that advanced two rows on
\* its owner's most recent committed move and still stands on that move's
\* destination; and getValidMoves offers an en passant capture only when the last
\* committed move is the two-row advance of the pawn to be taken.
C12_EnPassantWindow ==
  /\ \A sq \in Squares :
       LET piece == gameState.board[sq.row][sq.col]
           i == OwnersLastMove(gameState.moveHistory, piece.color)
       IN  (piece # Null /\ piece.justMovedTwo) =>
             /\ piece.type = "pawn"
             /\ i >= 1
             /\ IsDoubleStepTo(gameState.moveHistory[i], sq)
  /\ \A sq \in Squares :
       LET piece == gameState.board[sq.row][sq.col]
           n == Len(gameState.moveHistory)
       IN  (piece # Null /\ piece.type = "pawn" /\ piece.color = gameState.currentTurn) =>
             \A d \in getValidMoves(gameState.board, sq) :
               (d.col # sq.col /\ gameState.board[d.row][d.col] = Null) =>
                 /\ n >= 1
                 /\ IsDoubleStepTo(gameState.moveHistory[n], Pos(sq.row, d.col))

\* An opposing piece could capture on `position`: a pawn by its two forward
\* diagonals, any other piece by the squares its movement reaches.
CanBeCapturedOn(board, position, color) ==
  \E sq \in Squares :
    LET piece == board[sq.row][sq.col]
        direction == IF piece.color = "white" THEN -1 ELSE 1
    IN  /\ piece # Null
        /\ piece.color # color
        /\ IF piece.type = "pawn"
           THEN position.row = sq.row + direction /\ Abs(position.col - sq.col) = 1
           ELSE position \in getValidMovesWithoutRecursion(board, sq)

\* C13: getValidMoves of an unmoved king on its home square holds a castling
\* destination only if no opposing piece could capture on the king's square, the
\* square it crosses, or the square it lands on.
C13_CastlingPathSafe ==
  \A color \in {"white", "black"} : \A side \in {"kingside", "queenside"} :
    LET row == IF color = "white" THEN 7 ELSE 0
        king == gameState.board[row][4]
        dest == Pos(row, IF side = "kingside" THEN 6 ELSE 2)
        path == IF side = "kingside" THEN 4 .. 6 ELSE 2 .. 4
    IN  (/\ king # Null /\ king.type = "king" /\ king.color = color /\ ~king.hasMoved
         /\ dest \in getValidMoves(gameState.board, Pos(row, 4)))
        => \A col \in path : ~CanBeCapturedOn(gameState.board, Pos(row, col), color)

\* The square getKingMoves adds for castling on `side` to the moves of the king
\* on `position`.
CastlingDestination(board, position, side) ==
  Pos(IF board[position.row][position.col].color = "white" THEN 7 ELSE 0,
      IF side = "kingside" THEN position.col + 2 ELSE position.col - 2)

\* C14: on every board the program reaches, wherever a king stands, its
\* generated moves hold a castling destination of a side only if it stands
\* unmoved on e1 (white) or e8 (black), an unmoved rook of its colour stands on
\* that side's corner, and every square strictly between them is empty.
C14_CastlingPreconditions ==
  \A sq \in Squares : \A side \in {"kingside", "queenside"} :
    LET board == gameState.board
        king == board[sq.row][sq.col]
        homeRow == IF king.color = "white" THEN 7 ELSE 0
        rookCol == IF side = "kingside" THEN 7 ELSE 0
        rook == board[homeRow][rookCol]
        between == IF side = "kingside" THEN 5 .. 6 ELSE 1 .. 3
    IN  (/\ BoardIsNew
         /\ king # Null /\ king.type = "king"
         /\ CastlingDestination(board, sq, side) \in getKingMoves(board, sq))
        => /\ sq = Pos(homeRow, 4)
           /\ ~king.hasMoved
           /\ rook # Null /\ rook.type = "rook" /\ rook.color = king.color /\ ~rook.hasMoved
           /\ \A col \in between : board[homeRow][col] = Null

\* C14 happens: the king on its home square has been selected and castling is
\* among the moves shown.
C14_Witness ==
  /\ gameState.selectedPosition # Null
  /\ gameState.board[gameState.selectedPosition.row][gameState.selectedPosition.col].type = "king"
  /\ \E side \in {"kingside", "queenside"} :
       CastlingDestination(gameState.board, gameState.selectedPosition, side)
         \in gameState.validMoves

\* The last committed move took a king two columns along its row.
LastWasKingTwoColumns ==
  /\ LastCommitted
  /\ last.pre.board[last.from.row][last.from.col].type = "king"
  /\ Abs(last.from.col - last.to.col) = 2

\* The last call undid a move recorded as castling.
LastUndidCastle ==
  /\ last.op = "undo" /\ last.outcome = "applied"
  /\ last.pre.moveHistory[Len(last.pre.moveHistory)].isCastle

\* C15: after a commit that moves a king two columns, the king stands on the
\* destination, the rook of that side stands moved on the square the king
\* crossed, the corner and the king's origin are empty and the Move has isCastle;
\* undoing a castling puts king and rook back on the king's origin and the corner
\* and leaves the rook unmoved.
C15_CastlingEffect ==
  /\ LastWasKingTwoColumns =>
       LET from == last.from
           to == last.to
           king == last.pre.board[from.row][from.col]
           isKingside == to.col > from.col
           crossed == gameState.board[from.row][IF isKingside THEN from.col + 1 ELSE from.col - 1]
           post == gameState.board
       IN  /\ post[to.row][to.col] # Null
           /\ post[to.row][to.col].type = "king" /\ post[to.row][to.col].color = king.color
           /\ crossed # Null
           /\ crossed.type = "rook" /\ crossed.color = king.color /\ crossed.hasMoved
           /\ post[from.row][IF isKingside THEN 7 ELSE 0] = Null
           /\ post[from.row][from.col] = Null
           /\ gameState.moveHistory[Len(gameState.moveHistory)].isCastle
  /\ LastUndidCastle =>
       LET lastMove == last.pre.moveHistory[Len(last.pre.moveHistory)]
           from == lastMove.from
           color == last.pre.board[lastMove.to.row][lastMove.to.col].color
           corner == gameState.board[from.row][IF lastMove.to.col > from.col THEN 7 ELSE 0]
           home == gameState.board[from.row][from.col]
       IN  /\ home # Null /\ home.type = "king" /\ home.color = color
           /\ corner # Null
           /\ corner.type = "rook" /\ corner.color = color /\ ~corner.hasMoved

\* The last committed move took a pawn to its last rank with a promotion piece.
LastWasPromotion ==
  /\ LastCommitted
  /\ IsPromotionMove(last.pre.board[last.from.row][last.from.col], last.to)
  /\ last.promotion # NoPromotion

\* The last call undid a move recorded with a promotion.
LastUndidPromotion ==
  /\ last.op = "undo" /\ last.outcome = "applied"
  /\ last.pre.moveHistory[Len(last.pre.moveHistory)].promotion # NoPromotion

\* C16: a promotion commit puts on the destination a moved piece of the chosen
\* type and the pawn's colour, empties the origin and records the chosen type in
\* the Move; undoing a promotion puts a pawn of that colour back on the origin.
C16_PromotionEffect ==
  /\ LastWasPromotion =>
       LET pawn == last.pre.board[last.from.row][last.from.col]
           placed == gameState.board[last.to.row][last.to.col]
       IN  /\ placed # Null
           /\ placed.type = last.promotion
           /\ placed.color = pawn.color
           /\ placed.hasMoved
           /\ gameState.board[last.from.row][last.from.col] = Null
           /\ gameState.moveHistory[Len(gameState.moveHistory)].promotion = last.promotion
  /\ LastUndidPromotion =>
       LET lastMove == last.pre.moveHistory[Len(last.pre.moveHistory)]
           promoted == last.pre.board[lastMove.to.row][lastMove.to.col]
           back == gameState.board[lastMove.from.row][lastMove.from.col]
       IN  /\ back # Null
           /\ back.type = "pawn"
           /\ back.color = promoted.color

\* C16 happens: a pawn has been promoted to a piece other than a queen through
\* the dialog.
C16_Witness ==
  /\ LastWasPromotion
  /\ last.op = "promotion"
  /\ last.promotion # "queen"

\* Moving the piece on `position` to `d` leaves the king of its colour attacked.
LeavesKingInCheck(board, position, d) ==
  isKingInCheck(simulateMove(board, position, d), board[position.row][position.col].color)

\* C17: for every occupied square of the board, getValidMoves holds a square
\* exactly when the piece's generator offers it and moving there does not leave
\* the mover's king in check; and the moves shown for a selected piece are those.
C17_LegalityFilter ==
  /\ BoardIsNew =>
       \A sq \in Squares :
         gameState.board[sq.row][sq.col] # Null =>
           LET moves == getValidMoves(gameState.board, sq)
               generated == PseudoLegalMoves(gameState.board, sq)
           IN  /\ moves \subseteq generated
               /\ \A d \in generated :
                    d \in moves <=> ~LeavesKingInCheck(gameState.board, sq, d)
  /\ (last.op = "click" /\ last.outcome = "selected") =>
       \A d \in Squares :
         d \in gameState.validMoves
           <=> (/\ d \in PseudoLegalMoves(gameState.board, last.to)
                /\ ~LeavesKingInCheck(gameState.board, last.to, d))

\* C17 happens: a piece has been selected some of whose generated moves would
\* leave its king in check, and some not.
C17_Witness ==
  /\ last.op = "click" /\ last.outcome = "selected"
  /\ gameState.validMoves # {}
  /\ \E d \in PseudoLegalMoves(gameState.board, last.to) :
       LeavesKingInCheck(gameState.board, last.to, d)

\* C18: undoLastMove on an empty history changes nothing of the game state.
C18_UndoOnEmptyHistory ==
  (last.op = "undo" /\ Len(last.pre.moveHistory) = 0) => gameState = last.pre

\* C18 happens: undoLastMove has been called on an empty history.
C18_Witness ==
  /\ last.op = "undo"
  /\ Len(last.pre.moveHistory) = 0
  /\ steps > 0

\* C19: undoLastMove on a non-empty history drops exactly the last entry, flips
\* the turn, sets the status to playing and clears the selection.
C19_UndoPopsLastMove ==
  (last.op = "undo" /\ Len(last.pre.moveHistory) > 0) =>
    LET before == last.pre.moveHistory
    IN  /\ Len(gameState.moveHistory) = Len(before) - 1
        /\ \A i \in 1 .. Len(gameState.moveHistory) : gameState.moveHistory[i] = before[i]
        /\ gameState.currentTurn # last.pre.currentTurn
        /\ gameState.currentTurn \in {"white", "black"}
        /\ gameState.status = "playing"
        /\ gameState.selectedPosition = Null
        /\ gameState.validMoves = {}

\* C19 happens: a move has been undone and the undo leaves the side to move in
\* check.
C19_Witness ==
  /\ last.op = "undo"
  /\ Len(last.pre.moveHistory) > 1
  /\ isKingInCheck(gameState.board, gameState.currentTurn)

\* C20: after resetBoard the board is the starting position with every piece
\* unmoved, the history and both ledgers are empty, white is to move, the status
\* is playing, nothing is selected and no promotion is pending.
C20_ResetRestoresStart ==
  last.op = "reset" =>
    /\ \A sq \in Squares :
         LET piece == gameState.board[sq.row][sq.col]
         IN  IF sq.row \in {0, 1, 6, 7}
             THEN /\ piece # Null
                  /\ piece.type = (IF sq.row \in {1, 6} THEN "pawn" ELSE BackRank[sq.col + 1])
                  /\ piece.color = (IF sq.row <= 1 THEN "black" ELSE "white")
                  /\ ~piece.hasMoved /\ ~piece.justMovedTwo
             ELSE piece = Null
    /\ gameState.moveHistory = <<>>
    /\ gameState.capturedPieces = [white |-> <<>>, black |-> <<>>]
    /\ gameState.currentTurn = "white"
    /\ gameState.status = "playing"
    /\ gameState.selectedPosition = Null
    /\ gameState.validMoves = {}
    /\ pendingPromotion = Null
    /\ ~showPawnPromotion

\* C20 happens: the board has been reset while a promotion was pending.
C20_Witness ==
  /\ last.op = "reset"
  /\ last.prePending # Null
  /\ last.pre.moveHistory # <<>>

\* The colour of the piece the last call moved, on the board the call found.
LastMoverColor == last.pre.board[last.from.row][last.from.col].color

\* C21: a committed move emits exactly one onMove, carrying the Move appended to
\* the history; a rejected call emits nothing; a commit that gives checkmate emits
\* one onGameEnd naming the colour of the piece that moved, one that gives
\* stalemate emits onGameEnd('draw'), and no other commit emits onGameEnd.
C21_Notifications ==
  /\ LastCommitted =>
       /\ Len(gameState.moveHistory) = Len(last.pre.moveHistory) + 1
       /\ last.onMove = <<gameState.moveHistory[Len(gameState.moveHistory)]>>
       /\ last.onGameEnd =
            (IF gameState.status = "checkmate" THEN <<LastMoverColor>>
             ELSE IF gameState.status = "stalemate" THEN <<"draw">>
             ELSE <<>>)
  /\ ~LastCommitted => (last.onMove = <<>> /\ last.onGameEnd = <<>>)

\* The from/to pairs of a history.
CommandsOf(moveHistory) ==
  [i \in 1 .. Len(moveHistory) |->
     [from |-> moveHistory[i].from, to |-> moveHistory[i].to, promotion |-> NoPromotion]]

\* Each move of 1.e4 e5 2.Bc4 d6 3.Qf3 Na6 4.Qxf7 is, at its turn, a move of the
\* side to move that getValidMoves offers, and makeMove applied to them in turn
\* from the starting position ends in checkmate with black to move.
ScholarsMateAccepted ==
  /\ ScriptLegalFrom(InitialGameState, ScholarsMate, 1)
  /\ Replay(ScholarsMate).status = "checkmate"
  /\ Replay(ScholarsMate).currentTurn = "black"

\* C22: the seven moves are accepted one by one from the starting position, and
\* the state in which they have been played has status checkmate, black to move
\* and white reported to onGameEnd as the winner.
C22_ScholarsMate ==
  /\ ScholarsMateAccepted
  /\ (LastCommitted /\ CommandsOf(gameState.moveHistory) = ScholarsMate) =>
       /\ gameState.status = "checkmate"
       /\ gameState.currentTurn = "black"
       /\ last.onGameEnd = <<"white">>

\* C22 happens: the queen has been clicked from f3 to f7 after the six moves
\* before it.
C22_Witness ==
  /\ last.op = "click" /\ last.outcome = "applied"
  /\ last.from = Pos(5, 5) /\ last.to = Pos(1, 5)
  /\ CommandsOf(gameState.moveHistory) = ScholarsMate

\* The squares of the board that hold a king of `color`.
KingsOf(board, color) ==
  {sq \in Squares : /\ board[sq.row][sq.col] # Null
                    /\ board[sq.row][sq.col].type = "king"
                    /\ board[sq.row][sq.col].color = color}

\* C23: in every state reached by clicks, promotion choices, undos and resets,
\* every square holds nothing or one piece, and the board holds exactly one white
\* king and exactly one black king.
C23_OneKingEach ==
  /\ \A sq \in Squares :
       LET piece == gameState.board[sq.row][sq.col]
       IN  piece = Null
           \/ (/\ piece.type \in {"pawn", "rook", "knight", "bishop", "queen", "king"}
               /\ piece.color \in {"white", "black"})
  /\ Cardinality(KingsOf(gameState.board, "white")) = 1
  /\ Cardinality(KingsOf(gameState.board, "black")) = 1

(***************************************************************************)
(* Square names: positionToAlgebraic and algebraicToPosition of the move   *)
(* service (types/chess-types.ts) and getPositionNotation of               *)
(* utils/chess-utils.ts, which the history display calls.  A string is the *)
(* sequence of its UTF-16 code units.                                      *)
(***************************************************************************)
\* 'a'.charCodeAt(0)
CharCodeOfA == 97

\* The code unit of the decimal digit d ('0' is 48).
DigitChar(d) == 48 + d

\* parseInt on a one-character string: NaN unless the character is a digit.  A
\* comparison with NaN is false.
parseIntOfChar(c) ==
  IF c >= DigitChar(0) /\ c <= DigitChar(9)
  THEN [isNaN |-> FALSE, value |-> c - DigitChar(0)]
  ELSE [isNaN |-> TRUE, value |-> 0]

Thrown == [error |-> "Invalid algebraic notation"]

\* algebraicToPosition taking the rank as the row counted from the top.
algebraicToPositionRankFromTop(notation) ==
  IF Len(notation) < 2 THEN Thrown
  ELSE LET file == notation[1] - CharCodeOfA
           rank == parseIntOfChar(notation[2])
       IN  IF \/ file < 0 \/ file > 7 \/ rank.isNaN
              \/ (~rank.isNaN /\ (rank.value < 1 \/ rank.value > 8))
           THEN Thrown
           ELSE Pos(rank.value - 1, file)

algebraicToPosition(notation) ==
  IF Len(notation) < 2 THEN Thrown
  ELSE LET file == notation[1] - CharCodeOfA
           rank == parseIntOfChar(notation[2])
       IN  IF \/ file < 0 \/ file > 7 \/ rank.isNaN
              \/ (~rank.isNaN /\ (rank.value < 1 \/ rank.value > 8))
           THEN Thrown
           ELSE Pos(8 - rank.value, file)

\* For a position of the board 8 - row is one digit.
positionToAlgebraic(position) ==
  <<CharCodeOfA + position.col, DigitChar(8 - position.row)>>

getPositionNotation(row, col) ==
  LET files == <<97, 98, 99, 100, 101, 102, 103, 104>>
      ranks == <<DigitChar(8), DigitChar(7), DigitChar(6), DigitChar(5),
                 DigitChar(4), DigitChar(3), DigitChar(2), DigitChar(1)>>
  IN  <<files[col + 1], ranks[row + 1]>>

MaxNotationLength == 2

\* The code units the notations handed to algebraicToPosition are made of:
\* '`', 'a', 'h', 'i' and '0', '1', '8', '9'.
NotationChars == {96, 97, 104, 105, 48, 49, 56, 57}

RECURSIVE StringsOfLength(_)
StringsOfLength(n) ==
  IF n = 0 THEN {<<>>}
  ELSE {Append(str, c) : str \in StringsOfLength(n - 1), c \in NotationChars}

Notations ==
  UNION {StringsOfLength(n) : n \in 0 .. MaxNotationLength}
    \cup {positionToAlgebraic(p) : p \in Squares}

Conversion(op, outcome, notation, position) ==
  [op |-> op, outcome |-> outcome, notation |-> notation, position |-> position]

InitNotation ==
  /\ gameState = InitialGameState
  /\ showPawnPromotion = FALSE
  /\ pendingPromotion = Null
  /\ line = 1
  /\ steps = 0
  /\ last = Conversion("none", "none", <<>>, Null)
  /\ app = InitialApp

PositionToAlgebraic(position) ==
  /\ last' = Conversion("positionToAlgebraic", "returned",
                        positionToAlgebraic(position), position)
  /\ UNCHANGED <<gameState, showPawnPromotion, pendingPromotion, line, steps>>

AlgebraicToPosition(notation) ==
  /\ \E r \in {algebraicToPosition(notation)} :
       last' = Conversion("algebraicToPosition",
                          IF r = Thrown THEN "thrown" ELSE "returned", notation,
                          IF r = Thrown THEN Null ELSE r)
  /\ UNCHANGED <<gameState, showPawnPromotion, pendingPromotion, line, steps>>

GetPositionNotation(row, col) ==
  /\ last' = Conversion("getPositionNotation", "returned",
                        getPositionNotation(row, col), Pos(row, col))
  /\ UNCHANGED <<gameState, showPawnPromotion, pendingPromotion, line, steps>>

NextNotation ==
  \/ \E position \in Squares : PositionToAlgebraic(position) /\ UNCHANGED app
  \/ \E notation \in Notations : AlgebraicToPosition(notation) /\ UNCHANGED app
  \/ \E row \in Rows, col \in Cols : GetPositionNotation(row, col) /\ UNCHANGED app

SpecNotation == InitNotation /\ [][NextNotation]_vars

\* The first code unit is one of 'a'..'h' and the second one of '1'..'8'.
NamesASquare(notation) ==
  /\ Len(notation) >= 2
  /\ notation[1] \in CharCodeOfA .. (CharCodeOfA + 7)
  /\ notation[2] \in DigitChar(1) .. DigitChar(8)

\* C24: the name of a square of the board is the letter 'a' + col followed by the
\* digit 8 - row; algebraicToPosition gives back the position a name was made
\* from; getPositionNotation gives the same name as positionToAlgebraic; and
\* algebraicToPosition throws on a file outside a..h or a rank outside 1..8.
C24_NotationRoundTrip ==
  /\ last.op = "positionToAlgebraic" =>
       /\ Len(last.notation) = 2
       /\ last.notation[1] = CharCodeOfA + last.position.col
       /\ last.notation[2] = DigitChar(8 - last.position.row)
       /\ algebraicToPosition(last.notation) = last.position
  /\ last.op = "getPositionNotation" =>
       last.notation = positionToAlgebraic(last.position)
  /\ last.op = "algebraicToPosition" =>
       /\ (Len(last.notation) >= 2 /\ ~NamesASquare(last.notation))
            => last.outcome = "thrown"
       /\ last.outcome = "returned" =>
            /\ last.position \in Squares
            /\ positionToAlgebraic(last.position) = SubSeq(last.notation, 1, 2)

\* C24 happens: algebraicToPosition has thrown on a name with a file of the board
\* and the rank 9.
C24_Witness ==
  /\ last.op = "algebraicToPosition"
  /\ last.outcome = "thrown"
  /\ Len(last.notation) = 2
  /\ last.notation[1] = CharCodeOfA + 7
  /\ last.notation[2] = DigitChar(9)

\* The destinations the rules give a pawn: one row forward onto an empty square;
\* two rows forward from its starting row over an empty square onto an empty
\* square; a forward diagonal holding an enemy piece; a forward diagonal that is
\* empty while the square beside the pawn on that file holds an enemy pawn with
\* justMovedTwo.
PawnDestinations(board, position) ==
  LET piece == board[position.row][position.col]
      direction == IF piece.color = "white" THEN -1 ELSE 1
      startRow == IF piece.color = "white" THEN 6 ELSE 1
      Empty(r, c) == board[r][c] = Null
      Enemy(r, c) == board[r][c] # Null /\ board[r][c].color # piece.color
  IN  {d \in Squares :
         \/ /\ d.row = position.row + direction /\ d.col = position.col
            /\ Empty(d.row, d.col)
         \/ /\ d.row = position.row + 2 * direction /\ d.col = position.col
            /\ position.row = startRow
            /\ Empty(position.row + direction, position.col)
            /\ Empty(d.row, d.col)
         \/ /\ d.row = position.row + direction /\ Abs(d.col - position.col) = 1
            /\ \/ Enemy(d.row, d.col)
               \/ /\ Empty(d.row, d.col)
                  /\ Enemy(position.row, d.col)
                  /\ board[position.row][d.col].type = "pawn"
                  /\ board[position.row][d.col].justMovedTwo}

\* The squares of the board that hold a piece of one of `types`.
SquaresHolding(board, types) ==
  {sq \in Squares : board[sq.row][sq.col] # Null /\ board[sq.row][sq.col].type \in types}

\* C25: on every board the program reaches, the generated destinations of each
\* pawn are exactly those the rules give it, and none holds a piece of the pawn's
\* own colour.
C25_PawnDestinations ==
  BoardIsNew =>
    \A sq \in SquaresHolding(gameState.board, {"pawn"}) :
      /\ getPawnMoves(gameState.board, sq) = PawnDestinations(gameState.board, sq)
      /\ \A d \in getPawnMoves(gameState.board, sq) :
           \/ gameState.board[d.row][d.col] = Null
           \/ gameState.board[d.row][d.col].color # gameState.board[sq.row][sq.col].color

Sgn(n) == IF n < 0 THEN -1 ELSE IF n > 0 THEN 1 ELSE 0

\* The squares a piece sliding along `directions` reaches: k steps along one
\* direction, every square before the k-th empty, the k-th empty or holding an
\* enemy piece.
SliderDestinations(board, position, directions) ==
  LET piece == board[position.row][position.col]
      Step(dir, k) == Pos(position.row + k * dir[1], position.col + k * dir[2])
  IN  {d \in Squares :
         \E dir \in directions : \E k \in 1 .. 7 :
           /\ d = Step(dir, k)
           /\ \A j \in 1 .. (k - 1) : board[Step(dir, j).row][Step(dir, j).col] = Null
           /\ \/ board[d.row][d.col] = Null
              \/ board[d.row][d.col].color # piece.color}

\* C26: on every board the program reaches, the generated destinations of each
\* rook, bishop and queen are the squares along its orthogonal, diagonal or both
\* kinds of rays up to and including the first enemy piece and short of the first
\* friendly piece or the edge.
C26_SliderDestinations ==
  BoardIsNew =>
    /\ \A sq \in SquaresHolding(gameState.board, {"rook"}) :
         getRookMoves(gameState.board, sq)
           = SliderDestinations(gameState.board, sq, straightDirections)
    /\ \A sq \in SquaresHolding(gameState.board, {"bishop"}) :
         getBishopMoves(gameState.board, sq)
           = SliderDestinations(gameState.board, sq, diagonalDirections)
    /\ \A sq \in SquaresHolding(gameState.board, {"queen"}) :
         getQueenMoves(gameState.board, sq)
           = SliderDestinations(gameState.board, sq, straightDirections \cup diagonalDirections)

\* C26 happens: a move has been committed after which some rook, bishop or queen
\* can capture an enemy piece that has a square of the board behind it on the ray.
C26_Witness ==
  /\ LastCommitted
  /\ \E sq \in SquaresHolding(gameState.board, {"rook", "bishop", "queen"}) :
       \E d \in PseudoLegalMoves(gameState.board, sq) :
         /\ gameState.board[d.row][d.col] # Null
         /\ isValidPosition(Pos(d.row + Sgn(d.row - sq.row), d.col + Sgn(d.col - sq.col)))

\* C27: right after a committed move that leaves the side to move a legal move,
\* the status is check when that side's king is attacked and playing when it is
\* not, whatever the status was before the move.
C27_CheckOrPlaying ==
  (LastCommitted /\ HasLegalMove(gameState.board, gameState.currentTurn)) =>
    gameState.status = (IF isKingInCheck(gameState.board, gameState.currentTurn)
                        THEN "check" ELSE "playing")

\* C27 happens: a move has been committed from a position with status check or
\* playing and has given the other of the two.
C27_Witness ==
  /\ LastCommitted
  /\ HasLegalMove(gameState.board, gameState.currentTurn)
  /\ \/ last.pre.status = "check" /\ gameState.status = "playing"
     \/ last.pre.status = "playing" /\ gameState.status = "check"

\* The king of `color` stands on a square isPositionUnderAttack reports.
KingSquareUnderAttack(board, color) ==
  /\ KingPosition(board, color) # Null
  /\ isPositionUnderAttack(board, KingPosition(board, color), color)

\* The generator isKingInCheck uses gives the king on `sq` a castling destination
\* that the generator without castling does not give it.
CastlingExpanded(board, sq) ==
  PseudoLegalMoves(board, sq) # getValidMovesWithoutRecursion(board, sq)

\* C28: on every board the program reaches and for each colour, isKingInCheck
\* (whose generator expands castling) has a value, and it is the value of
\* isPositionUnderAttack on the king's square (whose generator does not); no
\* castling destination the generator adds holds a king.
C28_CheckWithoutRecursion ==
  BoardIsNew =>
    /\ \A color \in {"white", "black"} :
         isKingInCheck(gameState.board, color) <=> KingSquareUnderAttack(gameState.board, color)
    /\ \A sq \in SquaresHolding(gameState.board, {"king"}) :
         \A d \in PseudoLegalMoves(gameState.board, sq)
                    \ getValidMovesWithoutRecursion(gameState.board, sq) :
           gameState.board[d.row][d.col] = Null

\* C28 happens: a move has been committed after which one king has a castling
\* destination among its generated moves while the other king is in check.
C28_Witness ==
  /\ LastCommitted
  /\ \E sq \in SquaresHolding(gameState.board, {"king"}) :
       /\ CastlingExpanded(gameState.board, sq)
       /\ isKingInCheck(gameState.board, Opponent(gameState.board[sq.row][sq.col].color))

\* C29: right after a move chosen by clicks from getValidMoves (or completed in
\* the promotion dialog) has been applied, the king of the side that moved is not
\* attacked on the board makeMove wrote.
C29_MoverKingSafe ==
  LastCommitted => ~isKingInCheck(gameState.board, LastMoverColor)

\* C30: every committed move, whether it came from a click, the promotion dialog
\* or a command through the handle, moved a piece of the colour that was to move
\* in the state it was applied to.
C30_MoverIsSideToMove ==
  LastCommitted => LastMoverColor = last.pre.currentTurn

\* C31: a pending promotion is completed only against the position it was
\* validated on.  When handlePawnPromotion commits, the square pending.from of the
\* state it found holds a pawn of pending.color, it is that colour's turn and
\* pending.to is in getValidMoves(board, pending.from); and a call that changes
\* the board while a promotion is pending also clears the pending promotion.
C31_PendingPromotionValidated ==
  /\ (last.op = "promotion" /\ last.outcome = "applied") =>
       /\ last.pre.board[last.prePending.from.row][last.prePending.from.col] # Null
       /\ last.pre.board[last.prePending.from.row][last.prePending.from.col].type = "pawn"
       /\ last.pre.board[last.prePending.from.row][last.prePending.from.col].color
            = last.prePending.color
       /\ last.pre.currentTurn = last.prePending.color
       /\ last.prePending.to \in getValidMoves(last.pre.board, last.prePending.from)
  /\ (last.prePending # Null /\ gameState.board # last.pre.board) =>
       pendingPromotion = Null

\* The pieces of one colour standing on the board.
PiecesOnBoard(board, color) ==
  {sq \in Squares : board[sq.row][sq.col] # Null /\ board[sq.row][sq.col].color = color}

\* C34: piece conservation.  For each colour the number of its pieces on the
\* board plus the length of its captured-piece ledger is 16, and each ledger
\* holds only pieces of its own colour.
C34_PieceConservation ==
  \A color \in {"white", "black"} :
    /\ Cardinality(PiecesOnBoard(gameState.board, color))
         + Len(gameState.capturedPieces[color]) = 16
    /\ \A i \in 1 .. Len(gameState.capturedPieces[color]) :
         gameState.capturedPieces[color][i].color = color

\* C34 happens: an en passant capture has been undone and the pawn it took is
\* still counted in a ledger.
C34_Witness ==
  /\ last.op = "undo" /\ last.outcome = "applied"
  /\ last.pre.moveHistory[Len(last.pre.moveHistory)].isEnPassant
  /\ Len(gameState.capturedPieces.white) + Len(gameState.capturedPieces.black) > 0

\* C35: selection consistency.  With nothing selected validMoves is empty; a
\* selected square holds a piece of the side to move and validMoves is
\* getValidMoves(board, selectedPosition) for the board of the same state; and
\* a move committed by a click moved a piece of the side to move to one of its
\* getValidMoves destinations on the board it was applied to.
C35_SelectionConsistent ==
  /\ gameState.selectedPosition = Null => gameState.validMoves = {}
  /\ gameState.selectedPosition # Null =>
       /\ gameState.board[gameState.selectedPosition.row][gameState.selectedPosition.col] # Null
       /\ gameState.board[gameState.selectedPosition.row][gameState.selectedPosition.col].color
            = gameState.currentTurn
       /\ gameState.validMoves = getValidMoves(gameState.board, gameState.selectedPosition)
  /\ (last.op = "click" /\ last.outcome = "applied") =>
       /\ last.pre.board[last.from.row][last.from.col] # Null
       /\ last.pre.board[last.from.row][last.from.col].color = last.pre.currentTurn
       /\ last.to \in getValidMoves(last.pre.board, last.from)

\* C35 happens: a click has committed a move on a board that an undo had
\* changed since the run began.
C35_Witness ==
  /\ last.op = "click" /\ last.outcome = "applied"
  /\ Len(last.pre.moveHistory) < Len(Lines[line].script)

\* C36: undo never creates castling rights.  Committing any legal move and
\* undoing it leaves a king or rook with hasMoved = false only on a square where
\* the same kind of piece stood with hasMoved = false before the commit.
C36_UndoKeepsMovedFlag ==
  BoardIsNew =>
    \A m \in LegalCommands(gameState) :
      \A sq \in SquaresHolding(CommitThenUndo(gameState, m).board, {"king", "rook"}) :
        ~CommitThenUndo(gameState, m).board[sq.row][sq.col].hasMoved =>
          /\ gameState.board[sq.row][sq.col] # Null
          /\ ~gameState.board[sq.row][sq.col].hasMoved

\* C37: once the status is checkmate or stalemate a click commits nothing: it
\* leaves board, currentTurn, moveHistory and status as it found them.
C37_NoClickCommitAfterGameEnd ==
  (last.op = "click" /\ last.pre.status \in {"checkmate", "stalemate"}) =>
    /\ gameState.board = last.pre.board
    /\ gameState.currentTurn = last.pre.currentTurn
    /\ gameState.moveHistory = last.pre.moveHistory
    /\ gameState.status = last.pre.status

\* C37 happens: with the status checkmate or stalemate and a piece of the side
\* to move selected, another square has been clicked.
C37_Witness ==
  /\ last.op = "click"
  /\ last.pre.status \in {"checkmate", "stalemate"}
  /\ last.pre.selectedPosition # Null
  /\ last.to # last.pre.selectedPosition

\* C32: an AI move is applied only to the position it was computed for.  When
\* the move of an AI reply is handed to makeMove, the board and currentTurn that
\* makeMove finds equal the snapshot the AI was given.
C32_AIReplyOnItsPosition ==
  app.arrived # Null =>
    /\ last.pre.board = app.arrived.board
    /\ last.pre.currentTurn = app.arrived.currentTurn

\* C33: App's mirrored view equals the engine state.  App.moveHistory equals the
\* board's moveHistory, so that the clock's turn (moveHistory.length mod 2)
\* is the board's currentTurn, and App.capturedPieces equals the board's ledgers.
C33_MirrorEqualsEngine ==
  /\ app.moveHistory = gameState.moveHistory
  /\ (IF Len(app.moveHistory) % 2 = 0 THEN "white" ELSE "black") = gameState.currentTurn
  /\ app.capturedPieces = gameState.capturedPieces

(***************************************************************************)
(* OpenAIService.generateMoveForSkillLevel.  One call is followed through  *)
(* its attempts: each attempt gets an answer (a move suggested over        *)
(* SignalR, a text from the chat completion, or an error thrown on the     *)
(* way) and either returns or calls itself again with retryCount + 1.      *)
(***************************************************************************)
\* The helper isPositionOnBoard of generateMoveForSkillLevel; the rows and
\* columns of the model are numbers, so its typeof tests hold.
isPositionOnBoard(pos) ==
  /\ pos # Null
  /\ pos.row >= 0 /\ pos.row <= 7 /\ pos.col >= 0 /\ pos.col <= 7

\* parseSimpleAIMove(moveText): a move, or null when the text is too short or
\* algebraicToPosition throws.  cleanMove is
\* moveText.trim().replace(/[^a-h1-8]/g, '').toLowerCase().
parseSimpleAIMove(moveText) ==
  LET cleanMove ==
        SelectSeq(moveText,
                  LAMBDA c : \/ (c >= CharCodeOfA /\ c <= CharCodeOfA + 7)
                             \/ (c >= DigitChar(1) /\ c <= DigitChar(8)))
      from == algebraicToPosition(SubSeq(cleanMove, 1, 2))
      to == algebraicToPosition(SubSeq(cleanMove, 3, 4))
  IN  IF Len(cleanMove) < 4 THEN Null
      ELSE IF from = Thrown \/ to = Thrown THEN Null
           ELSE [from |-> from, to |-> to]

\* The retry condition with one more retry.
RetryAllowedOnceMore(retryCount) == retryCount < 3

\* if (retryCount < 2) return this.generateMoveForSkillLevel(..., retryCount + 1)
RetryAllowed(retryCount) == retryCount < 2

\* catch (error) { ...; return null; }
Caught(call) == [call EXCEPT !.pc = "resolved", !.result = Null]

\* The entry of one attempt: getApiKey is awaited before the try block, and
\* without a key the attempt throws.
Entered(call) ==
  IF call.hasKey THEN call ELSE [call EXCEPT !.pc = "rejected", !.result = Null]

\* The validation of a suggested or parsed move and what follows it: the move is
\* returned, or the call is made again with retryCount + 1 (its promise is
\* returned without await, so what it throws is not caught here), or null is
\* returned.
Validated(call, move) ==
  IF move # Null /\ isPositionOnBoard(move.from) /\ isPositionOnBoard(move.to)
  THEN [call EXCEPT !.pc = "resolved", !.result = move]
  ELSE IF RetryAllowed(call.retryCount)
       THEN Entered([call EXCEPT !.retryCount = @ + 1])
       ELSE [call EXCEPT !.pc = "resolved", !.result = Null]

\* Positions a SignalR response is seen to carry: missing, off the board on each
\* side, and corners of the board.
SuggestedPositions == {Null, Pos(-1, 0), Pos(0, 0), Pos(7, 7), Pos(8, 3), Pos(3, 8)}

\* Texts the chat completion is seen to answer: "e2e4", "a1h8", "e2-e4", "Nf3",
\* "ee44", "4e2e", "a9h8", "E2E4" and "e7e5 ".
MoveTexts ==
  {<<101, 50, 101, 52>>, <<97, 49, 104, 56>>, <<101, 50, 45, 101, 52>>,
   <<78, 102, 51>>, <<101, 101, 52, 52>>, <<52, 101, 50, 101>>,
   <<97, 57, 104, 56>>, <<69, 50, 69, 52>>, <<101, 55, 101, 53, 32>>}

\* The state of a call: where it stands, whether getApiKey returned a key, the
\* retryCount of the running attempt, the retryCount and the answer of the
\* attempt that ended last, and the value the call resolved to.
GenerateCall(pc, hasKey, retryCount, attempt, via, move, result) ==
  [op |-> "generateMoveForSkillLevel", pc |-> pc, hasKey |-> hasKey,
   retryCount |-> retryCount, attempt |-> attempt, via |-> via, move |-> move,
   result |-> result]

InitAIMove ==
  /\ gameState = InitialGameState
  /\ showPawnPromotion = FALSE
  /\ pendingPromotion = Null
  /\ line = 1
  /\ steps = 0
  /\ last = GenerateCall("idle", FALSE, 0, 0, "none", Null, Null)
  /\ app = InitialApp

\* generateMoveForSkillLevel(gameState, moveHistory, skillLevel) is called with
\* or without an API key stored.
GenerateMoveForSkillLevel(hasKey) ==
  /\ last.pc # "running"
  /\ last' = Entered(GenerateCall("running", hasKey, 0, 0, "none", Null, Null))
  /\ UNCHANGED <<gameState, showPawnPromotion, pendingPromotion, line, steps, app>>

\* clearApiKey() while a call is waiting for its answer.
ClearApiKey ==
  /\ last.pc = "running"
  /\ last.hasKey
  /\ last' = [last EXCEPT !.hasKey = FALSE]
  /\ UNCHANGED <<gameState, showPawnPromotion, pendingPromotion, line, steps, app>>

\* SignalR is connected and answers success with a suggestedMove.
SignalRSuggests(move) ==
  /\ last.pc = "running"
  /\ last' = Validated([last EXCEPT !.attempt = last.retryCount,
                                    !.via = "signalR", !.move = move], move)
  /\ UNCHANGED <<gameState, showPawnPromotion, pendingPromotion, line, steps, app>>

\* The chat completion answers with a text (SignalR was not connected, answered
\* without success or threw).
DirectApiAnswers(moveText) ==
  /\ last.pc = "running"
  /\ last' = Validated([last EXCEPT !.attempt = last.retryCount, !.via = "api",
                                    !.move = parseSimpleAIMove(moveText)],
                       parseSimpleAIMove(moveText))
  /\ UNCHANGED <<gameState, showPawnPromotion, pendingPromotion, line, steps, app>>

\* No model is selected, fetch throws, the response is not ok or carries no text.
TransportError ==
  /\ last.pc = "running"
  /\ last' = Caught([last EXCEPT !.attempt = last.retryCount, !.via = "error",
                                 !.move = Null])
  /\ UNCHANGED <<gameState, showPawnPromotion, pendingPromotion, line, steps, app>>

NextAIMove ==
  \/ \E hasKey \in BOOLEAN : GenerateMoveForSkillLevel(hasKey)
  \/ \E from \in SuggestedPositions, to \in SuggestedPositions :
       SignalRSuggests([from |-> from, to |-> to])
  \/ ClearApiKey
  \/ \E moveText \in MoveTexts : DirectApiAnswers(moveText)
  \/ TransportError

SpecAIMove == InitAIMove /\ [][NextAIMove]_vars

\* C38: generateMoveForSkillLevel makes at most 3 attempts (retryCount 0, 1, 2).
\* An answer that is not a move with both squares on the board is followed by
\* one more attempt while retryCount < 2 (as long as the API key is there) and
\* by null at retryCount 2; an error on the way gives null; the call resolves
\* to null or to a move with from and to within rows and columns 0..7; and it
\* rejects only without an API key.
C38_BoundedRetries ==
  /\ last.retryCount \in 0 .. 2
  /\ last.pc = "rejected" => ~last.hasKey
  /\ last.pc = "resolved" =>
       \/ last.result = Null
       \/ OnBoard(last.result.from) /\ OnBoard(last.result.to)
  /\ last.via = "error" => last.pc = "resolved" /\ last.result = Null
  /\ last.via \in {"signalR", "api"} =>
       IF last.move # Null /\ last.move.from # Null /\ last.move.to # Null
          /\ OnBoard(last.move.from) /\ OnBoard(last.move.to)
       THEN last.pc = "resolved" /\ last.result = last.move
       ELSE IF last.attempt < 2
            THEN /\ last.retryCount = last.attempt + 1
                 /\ last.pc \in {"running", "rejected"}
                 /\ last.hasKey => last.pc = "running"
            ELSE last.pc = "resolved" /\ last.result = Null

\* C38 happens: the third attempt has got an answer that is no move on the
\* board and the call has resolved to null.
C38_Witness ==
  /\ last.pc = "resolved" /\ last.result = Null
  /\ last.attempt = 2
  /\ last.via \in {"signalR", "api"}

(***************************************************************************)
(* SignalRService: connect with its retry timer, the connection events and *)
(* disconnect.  Every connect() that gets past its first test builds a new *)
(* HubConnection, so several can exist; the model counts them by state.    *)
(***************************************************************************)
maxReconnectAttempts == 5

\* connect() is called from outside (OpenAIService.initialize) at most this often.
MaxConnectCalls == 2

\* The retry test with one more retry.
CanRetryOnceMore(reconnectAttempts) == reconnectAttempts < maxReconnectAttempts + 1

\* if (this.reconnectAttempts < this.maxReconnectAttempts)
CanRetry(reconnectAttempts) == reconnectAttempts < maxReconnectAttempts

\* The service: its fields isConnected and reconnectAttempts, the pending retry
\* timers, the connections whose start() is awaited, the open ones and the
\* ones reconnecting by themselves, whether the hub can be reached, the
\* connect() calls made from outside, and the last event (a start begun,
\* resolved or rejected, a connection event, a disconnect) with the
\* reconnectAttempts and timers it found.
Service(isConnected, reconnectAttempts, timers, starting, open, reconnecting, up, calls, event, found) ==
  [op |-> "signalR", isConnected |-> isConnected,
   reconnectAttempts |-> reconnectAttempts, timers |-> timers,
   starting |-> starting, open |-> open, reconnecting |-> reconnecting,
   up |-> up, calls |-> calls, event |-> event, found |-> found]

Found(s) == [reconnectAttempts |-> s.reconnectAttempts, timers |-> s.timers]

\* connect() up to the await of connection.start(): nothing when already
\* connected, else a new connection is built and started.
connect(s) ==
  IF s.isConnected THEN s
  ELSE [s EXCEPT !.starting = @ + 1, !.event = "connecting", !.found = Found(s)]

\* The rest of the try block: start() has resolved.
started(s) ==
  [s EXCEPT !.starting = @ - 1, !.open = @ + 1, !.isConnected = TRUE,
            !.reconnectAttempts = 0, !.event = "started", !.found = Found(s)]

\* The catch block: start() has rejected.
failed(s) ==
  IF CanRetry(s.reconnectAttempts)
  THEN [s EXCEPT !.starting = @ - 1, !.isConnected = FALSE,
                 !.reconnectAttempts = @ + 1, !.timers = @ + 1,
                 !.event = "failed", !.found = Found(s)]
  ELSE [s EXCEPT !.starting = @ - 1, !.isConnected = FALSE,
                 !.event = "failed", !.found = Found(s)]

InitSignalR ==
  /\ gameState = InitialGameState
  /\ showPawnPromotion = FALSE
  /\ pendingPromotion = Null
  /\ line = 1
  /\ steps = 0
  /\ \E up \in BOOLEAN :
       last = Service(FALSE, 0, 0, 0, 0, 0, up, 0, "none",
                      [reconnectAttempts |-> 0, timers |-> 0])
  /\ app = InitialApp

\* signalRService.connect() called by OpenAIService.initialize.
Connect ==
  /\ last.calls < MaxConnectCalls
  /\ last' = connect([last EXCEPT !.calls = @ + 1])
  /\ UNCHANGED <<gameState, showPawnPromotion, pendingPromotion, line, steps, app>>

\* setTimeout(() => this.connect(), ...) fires.
RetryTimerFires ==
  /\ last.timers > 0
  /\ last' = connect([last EXCEPT !.timers = @ - 1])
  /\ UNCHANGED <<gameState, showPawnPromotion, pendingPromotion, line, steps, app>>

StartSucceeds ==
  /\ last.starting > 0
  /\ last.up
  /\ last' = started(last)
  /\ UNCHANGED <<gameState, showPawnPromotion, pendingPromotion, line, steps, app>>

StartFails ==
  /\ last.starting > 0
  /\ last' = failed(last)
  /\ UNCHANGED <<gameState, showPawnPromotion, pendingPromotion, line, steps, app>>

\* connection.onclose of an open connection or of one that gave up reconnecting.
OnClose ==
  /\ \/ /\ last.open > 0
        /\ last' = [last EXCEPT !.open = @ - 1, !.isConnected = FALSE,
                                !.event = "close", !.found = Found(last)]
     \/ /\ last.reconnecting > 0
        /\ last' = [last EXCEPT !.reconnecting = @ - 1, !.isConnected = FALSE,
                                !.event = "close", !.found = Found(last)]
  /\ UNCHANGED <<gameState, showPawnPromotion, pendingPromotion, line, steps, app>>

\* connection.onreconnecting
OnReconnecting ==
  /\ last.open > 0
  /\ last' = [last EXCEPT !.open = @ - 1, !.reconnecting = @ + 1,
                          !.isConnected = FALSE, !.event = "reconnecting",
                          !.found = Found(last)]
  /\ UNCHANGED <<gameState, showPawnPromotion, pendingPromotion, line, steps, app>>

\* connection.onreconnected
OnReconnected ==
  /\ last.reconnecting > 0
  /\ last.up
  /\ last' = [last EXCEPT !.reconnecting = @ - 1, !.open = @ + 1,
                          !.isConnected = TRUE, !.event = "reconnected",
                          !.found = Found(last)]
  /\ UNCHANGED <<gameState, showPawnPromotion, pendingPromotion, line, steps, app>>

\* disconnect(): stop() of this.connection, the connection built last, which
\* is open, reconnecting, or still starting (its start() then rejects later).
Disconnect ==
  /\ last.isConnected
  /\ \/ /\ last.open > 0
        /\ last' = [last EXCEPT !.open = @ - 1, !.isConnected = FALSE,
                                !.event = "disconnect", !.found = Found(last)]
     \/ /\ last.reconnecting > 0
        /\ last' = [last EXCEPT !.reconnecting = @ - 1, !.isConnected = FALSE,
                                !.event = "disconnect", !.found = Found(last)]
     \/ /\ last.starting > 0
        /\ last' = [last EXCEPT !.isConnected = FALSE, !.event = "disconnect",
                                !.found = Found(last)]
  /\ UNCHANGED <<gameState, showPawnPromotion, pendingPromotion, line, steps, app>>

\* The hub becomes unreachable or reachable.
HubChanges ==
  /\ last' = [last EXCEPT !.up = ~@]
  /\ UNCHANGED <<gameState, showPawnPromotion, pendingPromotion, line, steps, app>>

NextSignalR ==
  \/ Connect
  \/ RetryTimerFires
  \/ StartSucceeds
  \/ StartFails
  \/ OnClose
  \/ OnReconnecting
  \/ OnReconnected
  \/ Disconnect
  \/ HubChanges

\* A timer that was set fires, and an awaited start() resolves or rejects.
SpecSignalRFair ==
  /\ InitSignalR /\ [][NextSignalR]_vars
  /\ WF_vars(RetryTimerFires)
  /\ WF_vars(StartSucceeds \/ StartFails)

C39_Safety ==
  /\ last.reconnectAttempts \in 0 .. maxReconnectAttempts
  /\ last.event = "failed" =>
       /\ ~last.isConnected
       /\ IF last.found.reconnectAttempts < 5
          THEN /\ last.reconnectAttempts = last.found.reconnectAttempts + 1
               /\ last.timers = last.found.timers + 1
          ELSE /\ last.reconnectAttempts = last.found.reconnectAttempts
               /\ last.timers = last.found.timers
  /\ last.event = "started" => last.reconnectAttempts = 0 /\ last.isConnected
  /\ last.isConnected =>
       /\ last.event \in {"started", "reconnected"}
       /\ last.open > 0
  /\ last.event \in {"close", "reconnecting", "disconnect"} => ~last.isConnected

\* C39: reconnectAttempts stays within 0..5; a failed connect sets one more
\* retry timer only while reconnectAttempts < 5; a successful connect resets
\* the counter to 0; isConnected is true only from a successful start or
\* reconnect until the next close, reconnecting or disconnect; and when the
\* hub stays unreachable, from some point on no retry is pending and no start
\* is awaited.
C39_BoundedRetries ==
  /\ []C39_Safety
  /\ <>[](~last.up) => <>[](last.timers = 0 /\ last.starting = 0)

\* C39 happens: the hub is unreachable, five retries have been scheduled and
\* have failed, and nothing more is pending.
C39_Witness ==
  /\ ~last.up
  /\ last.event = "failed"
  /\ last.found.reconnectAttempts = 5
  /\ last.timers = 0 /\ last.starting = 0

====
